---- MODULE Spec2Model ----
(***************************************************************************)
(* A model of GPXParser.c: the builder (createGPXdoc / buildObjects), the  *)
(* destructor cascade, the model validator (IsValidGPXdoc), the inverse    *)
(* serializer (ConvertGPXDocToXmlDoc) and the proximity query              *)
(* (getRoutesBetween).                                                     *)
(*                                                                         *)
(* Representation.                                                         *)
(*  - An xml tree is a nested record; every node has the fields type,      *)
(*    name, ns, properties, children, content (libxml2's xmlNode).  Tags   *)
(*    and element text are atomic strings; attribute text is a sequence of *)
(*    characters, because strtod and sprintf work on its characters.       *)
(*  - A double is an integer number of millionths (the six decimals that   *)
(*    "%f" prints); the digits of a text beyond the sixth decimal are      *)
(*    dropped by the model.                                                *)
(*  - The C heap is a function from addresses to the objects alive at      *)
(*    them; free removes the address, malloc takes a fresh one.  The List  *)
(*    of a struct is the sequence of the addresses it holds.               *)
(***************************************************************************)
EXTENDS Integers, Sequences, FiniteSets, TLC

VARIABLES
    heap,       \* the objects alive in memory
    parseFail,  \* the global flag of line 58
    doc,        \* the GPXdoc the caller holds, or NULL
    view,       \* the List the caller got from getRoutesBetween, or NULL
    crashed,    \* the process has dereferenced NULL
    tree,       \* [root, origin]: the tree given to the last createGPXdoc and
                \* the xmlDoc it was written from, if any
    xdoc,       \* the tree made by the last ConvertGPXDocToXmlDoc
    ret,        \* the last call: [op, val, arg]
    failures    \* createGPXdoc calls that returned NULL

vars == <<heap, parseFail, doc, view, crashed, tree, xdoc, ret, failures>>

NULL == 0

(***************************************************************************)
(* Program constants (#define lines of GPXParser.c), in millionths.        *)
(***************************************************************************)
Scale == 1000000
MAX_LATITUDE == 90000000
MIN_LATITUDE == -90000000
MAX_LONGITUDE == 180000000
MIN_LONGITUDE == -180000000
SENTINEL_LAT_LON == -200000000
SENTINEL_VERSION == -1000000
MIN_LOOP_WPTS == 4

GPX == "gpx"
TRK == "trk"
TRKSEG == "trkseg"
TRKPT == "trkpt"
RTEPT == "rtept"
WPT == "wpt"
RTE == "rte"
VERSION == "version"
CREATOR == "creator"
TEXT == "text"
LAT == "lat"
LON == "lon"
NAME == "name"

(***************************************************************************)
(* Bounds of the model.                                                    *)
(***************************************************************************)
\* createGPXdoc calls that return NULL, after which it is not called again
MaxFailures == 2
\* rte elements of an input tree
MaxRoutes == 2
\* Lists that getRoutesBetween left in memory, after which it is not called
MaxLists == 1
\* the longest length, in metres, given to round10 on its own
MaxLength == 120
\* Waypoints and Routes in memory, after which the caller builds no more
MaxWaypointObjects == 3
MaxRouteObjects == 2

(***************************************************************************)
(* strtod and sprintf("%f"), sprintf("%.1f") on character sequences.       *)
(***************************************************************************)
DigitChars == <<"0", "1", "2", "3", "4", "5", "6", "7", "8", "9">>

IsDigit(c) == \E i \in 1..10 : DigitChars[i] = c

DigitVal(c) == (CHOOSE i \in 1..10 : DigitChars[i] = c) - 1

Abs(n) == IF n < 0 THEN -n ELSE n

RECURSIVE Pow10(_)
Pow10(k) == IF k = 0 THEN 1 ELSE 10 * Pow10(k - 1)

\* the digits of s from position i on: [val, n] = their value and their count
RECURSIVE ScanDigits(_, _, _, _)
ScanDigits(s, i, val, n) ==
    IF i <= Len(s) /\ IsDigit(s[i])
    THEN ScanDigits(s, i + 1, 10 * val + DigitVal(s[i]), n + 1)
    ELSE [val |-> val, n |-> n]

\* the digits after the decimal point, as millionths (at most six are kept)
RECURSIVE ScanFraction(_, _, _, _)
ScanFraction(s, i, val, n) ==
    IF i <= Len(s) /\ IsDigit(s[i])
    THEN ScanFraction(s, i + 1,
                      IF n < 6 THEN val + DigitVal(s[i]) * Pow10(5 - n) ELSE val,
                      n + 1)
    ELSE [val |-> val, n |-> n]

\* strtod(s, &endPtr): the longest numeric prefix of s, 0.0 when there is none
strtod(s) ==
    LET signed == Len(s) >= 1 /\ s[1] \in {"-", "+"}
        start  == IF signed THEN 2 ELSE 1
        ip     == ScanDigits(s, start, 0, 0)
        dot    == start + ip.n
        hasDot == dot <= Len(s) /\ s[dot] = "."
        fp     == IF hasDot THEN ScanFraction(s, dot + 1, 0, 0)
                            ELSE [val |-> 0, n |-> 0]
        mag    == ip.val * Scale + fp.val
    IN  IF ip.n + fp.n = 0 THEN 0
        ELSE IF signed /\ s[1] = "-" THEN -mag ELSE mag

RECURSIVE IntToChars(_)
IntToChars(n) ==
    IF n < 10 THEN <<DigitChars[n + 1]>>
    ELSE IntToChars(n \div 10) \o <<DigitChars[(n % 10) + 1]>>

\* the k low decimal digits of n, zero padded
RECURSIVE PadDigits(_, _)
PadDigits(n, k) ==
    IF k = 0 THEN <<>>
    ELSE PadDigits(n \div 10, k - 1) \o <<DigitChars[(n % 10) + 1]>>

\* sprintf(buf, "%f", v)
FormatF(v) ==
    (IF v < 0 THEN <<"-">> ELSE <<>>)
        \o IntToChars(Abs(v) \div Scale) \o <<".">> \o PadDigits(Abs(v) % Scale, 6)

\* sprintf(buf, "%.1f", v): rounded to tenths
FormatF1(v) ==
    LET tenths == (Abs(v) + (Scale \div 20)) \div (Scale \div 10)
    IN  (IF v < 0 /\ tenths > 0 THEN <<"-">> ELSE <<>>)
            \o IntToChars(tenths \div 10) \o <<".">> \o PadDigits(tenths % 10, 1)

(***************************************************************************)
(* The xml tree (libxml2 xmlNode) and xmlNodeGetContent.                   *)
(***************************************************************************)
Element(name, ns, properties, children) ==
    [type |-> "element", name |-> name, ns |-> ns, properties |-> properties,
     children |-> children, content |-> ""]

TextNode(s) ==
    [type |-> "text", name |-> TEXT, ns |-> "", properties |-> <<>>,
     children |-> <<>>, content |-> s]

Attr(name, cont) == [name |-> name, cont |-> cont]

\* xmlNodeGetContent: the text of a text node, the concatenated text of the
\* descendants of an element
RECURSIVE xmlNodeGetContent(_)
RECURSIVE ContentOfAll(_, _)
ContentOfAll(nodes, i) ==
    IF i > Len(nodes) THEN ""
    ELSE xmlNodeGetContent(nodes[i]) \o ContentOfAll(nodes, i + 1)

xmlNodeGetContent(node) ==
    IF node.type = "text" THEN node.content
    ELSE ContentOfAll(node.children, 1)

(***************************************************************************)
(* The heap.  An object is a record with a kind; the structs are           *)
(*   GPXdoc       [namespace, version, creator, waypoints, routes, tracks] *)
(*   Track        [name, segments, otherData]                              *)
(*   Route        [name, waypoints, otherData]                             *)
(*   TrackSegment [waypoints]                                              *)
(*   Waypoint     [name, latitude, longitude, otherData]                   *)
(*   GPXData      [name, value]                                            *)
(* malloc is taken to succeed.                                             *)
(***************************************************************************)
EmptyHeap == [a \in {} |-> NULL]

MaxOf(S) == CHOOSE m \in S : \A n \in S : n <= m

\* malloc: an address that holds no object
malloc(h) == IF DOMAIN h = {} THEN 1 ELSE MaxOf(DOMAIN h) + 1

Store(h, a, obj) == [x \in (DOMAIN h) \cup {a} |-> IF x = a THEN obj ELSE h[x]]

\* insertBack(list, data) on the list `field` of the object at address a
insertBack(h, a, field, data) ==
    [h EXCEPT ![a] = [@ EXCEPT ![field] = Append(@, data)]]

\* getFromBack(list): the last element, NULL for an empty list
getFromBack(list) == IF Len(list) = 0 THEN NULL ELSE list[Len(list)]

\* the GPXdoc malloc'ed by createGPXdoc, its members not yet set
RawGPXdoc ==
    [kind |-> "GPXdoc", namespace |-> "", version |-> 0, creator |-> <<>>,
     waypoints |-> <<>>, routes |-> <<>>, tracks |-> <<>>, built |-> FALSE]

\* buildGPXdoc(gpx, schemaLocation, version, creator); the three strings are
\* never NULL, the caller initialises them to ""
buildGPXdoc(h, gpx, schemaLocation, version, creator) ==
    IF gpx = NULL THEN [heap |-> h, ptr |-> NULL]
    ELSE [heap |-> [h EXCEPT ![gpx] =
                      [kind |-> "GPXdoc",
                       namespace |-> schemaLocation,
                       version |-> IF version = <<>> THEN SENTINEL_VERSION
                                   ELSE strtod(version),
                       creator |-> creator,
                       waypoints |-> <<>>, routes |-> <<>>, tracks |-> <<>>,
                       built |-> TRUE]],
          ptr |-> gpx]

buildTrack(h, name) ==
    LET a == malloc(h)
    IN  [heap |-> Store(h, a, [kind |-> "Track", name |-> name,
                               segments |-> <<>>, otherData |-> <<>>]),
         ptr |-> a]

buildRoute(h, name) ==
    LET a == malloc(h)
    IN  [heap |-> Store(h, a, [kind |-> "Route", name |-> name,
                               waypoints |-> <<>>, otherData |-> <<>>]),
         ptr |-> a]

\* buildWaypoint(waypoint, name, longitude, latitude): both coordinates start
\* as the sentinel; the latitude too is parsed only when the LONGITUDE text is
\* not empty (line 232)
buildWaypoint(h, name, longitude, latitude) ==
    LET a == malloc(h)
    IN  [heap |-> Store(h, a,
                    [kind |-> "Waypoint", name |-> name,
                     longitude |-> IF longitude # <<>> THEN strtod(longitude)
                                   ELSE SENTINEL_LAT_LON,
                     latitude |-> IF longitude # <<>> THEN strtod(latitude)
                                  ELSE SENTINEL_LAT_LON,
                     otherData |-> <<>>]),
         ptr |-> a]

\* buildGPXData that takes an empty value as it takes any other
buildGPXDataAnyValue(h, name, value) ==
    LET a == malloc(h)
    IN  [heap |-> Store(h, a, [kind |-> "GPXData", name |-> name, value |-> value]),
         ptr |-> a]

\* buildGPXData(gpxData, name, value): NULL for an empty value
buildGPXData(h, name, value) ==
    IF value = "" THEN [heap |-> h, ptr |-> NULL]
    ELSE LET a == malloc(h)
         IN  [heap |-> Store(h, a, [kind |-> "GPXData", name |-> name,
                                    value |-> value]),
              ptr |-> a]

buildTrackSegment(h) ==
    LET a == malloc(h)
    IN  [heap |-> Store(h, a, [kind |-> "TrackSegment", waypoints |-> <<>>]),
         ptr |-> a]

(***************************************************************************)
(* buildObjects.  b = [heap, gpx, parseFail, crashed] is the memory, the   *)
(* gpx pointer of the running call, the global flag and whether the        *)
(* process has dereferenced NULL.  L holds the locals of one call, which   *)
(* are declared outside the sibling loop and so live across its rounds.    *)
(***************************************************************************)
InitialLocals ==
    [gpxSchema |-> "", gpxVersion |-> <<>>, gpxCreator |-> <<>>,
     trkName |-> "", wptName |-> "", rteName |-> "",
     wptLat |-> <<>>, wptLon |-> <<>>]

IsPoint(name) == name \in {TRKPT, WPT, RTEPT}

\* the name scan: child starts at cur_node->children->next, content is read
\* once, from that child, and is copied whenever a child from there on is
\* called "name"
ScanName(children, old) ==
    IF Len(children) >= 2 /\ \E i \in 2..Len(children) : children[i].name = NAME
    THEN xmlNodeGetContent(children[2])
    ELSE old

\* lines 372-413: the loop over the attributes of cur_node
RECURSIVE AttrLoop(_, _, _)
AttrLoop(node, i, L) ==
    IF i > Len(node.properties) THEN L
    ELSE LET attr == node.properties[i]
             L1 == IF node.name = GPX
                   THEN LET L0 == [L EXCEPT !.gpxSchema = node.ns]
                        IN  IF attr.name = VERSION
                            THEN [L0 EXCEPT !.gpxVersion = attr.cont]
                            ELSE IF attr.name = CREATOR
                            THEN [L0 EXCEPT !.gpxCreator = attr.cont]
                            ELSE L0
                   ELSE IF IsPoint(node.name)
                   THEN LET L0 == IF node.children # <<>>
                                  THEN [L EXCEPT !.wptName =
                                            ScanName(node.children, @)]
                                  ELSE L
                        IN  IF attr.name = LAT
                            THEN [L0 EXCEPT !.wptLat = attr.cont]
                            ELSE IF attr.name = LON
                            THEN [L0 EXCEPT !.wptLon = attr.cont]
                            ELSE L0
                   ELSE L
         IN  AttrLoop(node, i + 1, L1)

\* the loops that capture the children of a point, a trk or a rte as GPXData
\* of `owner`, from child i on; ok = FALSE when buildGPXData returned NULL
RECURSIVE CaptureData(_, _, _, _, _)
CaptureData(h, owner, children, i, skipped) ==
    IF i > Len(children) THEN [heap |-> h, ok |-> TRUE]
    ELSE IF children[i].name \in skipped
    THEN CaptureData(h, owner, children, i + 1, skipped)
    ELSE LET d == buildGPXData(h, children[i].name,
                               xmlNodeGetContent(children[i]))
         IN  IF d.ptr = NULL THEN [heap |-> d.heap, ok |-> FALSE]
             ELSE CaptureData(insertBack(d.heap, owner, "otherData", d.ptr),
                              owner, children, i + 1, skipped)

CaptureChildren(h, owner, node, skipped) ==
    IF node.children # <<>>
    THEN CaptureData(h, owner, node.children, 2, skipped)
    ELSE [heap |-> h, ok |-> TRUE]

\* the outcomes of one round of the sibling loop up to line 585
Continue(b, L) == [b |-> b, L |-> L, returned |-> FALSE]
ReturnNull(b, L) == [b |-> [b EXCEPT !.parseFail = TRUE], L |-> L, returned |-> TRUE]
NullDeref(b, L) == [b |-> [b EXCEPT !.crashed = TRUE], L |-> L, returned |-> TRUE]

\* lines 347-370: a trkseg goes to the last track of the document, to a new
\* unnamed track when the document has none
AttachSegment(b, L) ==
    IF b.gpx = NULL THEN NullDeref(b, L)
    ELSE LET last == getFromBack(b.heap[b.gpx].tracks)
             t    == IF last = NULL THEN buildTrack(b.heap, "")
                     ELSE [heap |-> b.heap, ptr |-> last]
             h1   == IF last = NULL
                     THEN insertBack(t.heap, b.gpx, "tracks", t.ptr)
                     ELSE t.heap
             s    == buildTrackSegment(h1)
         IN  Continue([b EXCEPT !.heap =
                          insertBack(s.heap, t.ptr, "segments", s.ptr)], L)

\* lines 459-509: where the new waypoint w goes
PlacePoint(b, L, name, w) ==
    IF b.gpx = NULL THEN NullDeref(b, L)
    ELSE IF name = WPT
    THEN Continue([b EXCEPT !.heap = insertBack(@, b.gpx, "waypoints", w)], L)
    ELSE IF name = TRKPT
    THEN LET last == getFromBack(b.heap[b.gpx].tracks)
             t    == IF last = NULL THEN buildTrack(b.heap, "")
                     ELSE [heap |-> b.heap, ptr |-> last]
             h1   == IF last = NULL
                     THEN insertBack(t.heap, b.gpx, "tracks", t.ptr)
                     ELSE t.heap
             lseg == getFromBack(h1[t.ptr].segments)
             s    == IF lseg = NULL THEN buildTrackSegment(h1)
                     ELSE [heap |-> h1, ptr |-> lseg]
             h2   == IF lseg = NULL
                     THEN insertBack(s.heap, t.ptr, "segments", s.ptr)
                     ELSE s.heap
         IN  Continue([b EXCEPT !.heap =
                          insertBack(h2, s.ptr, "waypoints", w)], L)
    ELSE LET last == getFromBack(b.heap[b.gpx].routes)
             r    == IF last = NULL THEN buildRoute(b.heap, "")
                     ELSE [heap |-> b.heap, ptr |-> last]
             h1   == IF last = NULL
                     THEN insertBack(r.heap, b.gpx, "routes", r.ptr)
                     ELSE r.heap
         IN  Continue([b EXCEPT !.heap =
                          insertBack(h1, r.ptr, "waypoints", w)], L)

\* lines 415-584: the object built for cur_node
BuildForNode(b, L, node) ==
    IF node.name = GPX
    THEN LET g == buildGPXdoc(b.heap, b.gpx, L.gpxSchema, L.gpxVersion,
                              L.gpxCreator)
         IN  IF g.ptr = NULL THEN ReturnNull([b EXCEPT !.gpx = NULL], L)
             ELSE Continue([b EXCEPT !.heap = g.heap], L)
    ELSE IF IsPoint(node.name)
    THEN LET w   == buildWaypoint(b.heap, L.wptName, L.wptLon, L.wptLat)
             L1  == [L EXCEPT !.wptName = ""]
             cap == CaptureChildren(w.heap, w.ptr, node, {TEXT, NAME})
             b1  == [b EXCEPT !.heap = cap.heap]
         IN  IF ~cap.ok THEN ReturnNull(b1, L1)
             ELSE PlacePoint(b1, L1, node.name, w.ptr)
    ELSE IF node.name = TRK
    THEN LET t   == buildTrack(b.heap, L.trkName)
             L1  == [L EXCEPT !.trkName = ""]
             cap == CaptureChildren(t.heap, t.ptr, node, {TEXT, TRKSEG, NAME})
             b1  == [b EXCEPT !.heap = cap.heap]
         IN  IF ~cap.ok THEN ReturnNull(b1, L1)
             ELSE IF b.gpx = NULL THEN NullDeref(b1, L1)
             ELSE Continue([b1 EXCEPT !.heap =
                               insertBack(@, b.gpx, "tracks", t.ptr)], L1)
    ELSE IF node.name = RTE
    THEN LET r   == buildRoute(b.heap, L.rteName)
             L1  == [L EXCEPT !.rteName = ""]
             cap == CaptureChildren(r.heap, r.ptr, node, {TEXT, RTEPT, NAME})
             b1  == [b EXCEPT !.heap = cap.heap]
         IN  IF ~cap.ok THEN ReturnNull(b1, L1)
             ELSE IF b.gpx = NULL THEN NullDeref(b1, L1)
             ELSE Continue([b1 EXCEPT !.heap =
                               insertBack(@, b.gpx, "routes", r.ptr)], L1)
    ELSE Continue(b, L)

\* lines 312-585: one element node of the sibling loop
VisitElement(b, L, node) ==
    IF node.name = RTE /\ node.children = <<>>
    THEN NullDeref(b, L)                \* cur_node->children->next, line 314
    ELSE LET L1 == IF node.name = RTE
                   THEN [L EXCEPT !.rteName = ScanName(node.children, @)]
                   ELSE L
             L2 == IF node.name = TRK /\ node.children # <<>>
                   THEN [L1 EXCEPT !.trkName = ScanName(node.children, @)]
                   ELSE L1
             s  == IF node.name = TRKSEG THEN AttachSegment(b, L2)
                   ELSE Continue(b, L2)
         IN  IF s.returned THEN s
             ELSE BuildForNode(s.b, AttrLoop(node, 1, s.L), node)

\* buildObjects(a_node, gpx): a_node and its following siblings are `nodes`
RECURSIVE buildObjects(_, _)
RECURSIVE SiblingLoop(_, _, _, _)
\* the next round of the loop, after the call on the children returned c
NextSibling(nodes, i, L, c) ==
    IF c.crashed THEN c ELSE SiblingLoop(nodes, i + 1, L, c)

\* lines 587-591: after the round r of node i, the test of parseFail and the
\* call on the children of the node
Descend(nodes, i, r) ==
    IF r.b.crashed THEN r.b
    ELSE IF r.returned \/ r.b.parseFail
    THEN [r.b EXCEPT !.gpx = NULL]
    ELSE NextSibling(nodes, i, r.L, buildObjects(nodes[i].children, r.b))

SiblingLoop(nodes, i, L, b) ==
    IF i > Len(nodes) THEN b
    ELSE Descend(nodes, i,
                 IF nodes[i].type = "element" THEN VisitElement(b, L, nodes[i])
                 ELSE Continue(b, L))

buildObjects(nodes, b) == SiblingLoop(nodes, 1, InitialLocals, b)

(***************************************************************************)
(* The destructors.  m = [heap, bad]: bad is set when an address that      *)
(* holds no object is freed or read (double free, use after free).  The    *)
(* deleteData function of a List is named by a string.                     *)
(***************************************************************************)
free(m, a) ==
    IF a \in DOMAIN m.heap
    THEN [m EXCEPT !.heap = [x \in (DOMAIN m.heap) \ {a} |-> m.heap[x]]]
    ELSE [m EXCEPT !.bad = TRUE]

RECURSIVE freeList(_, _, _, _)
RECURSIVE deleteData(_, _, _)

\* freeList(list): deleteData on every element from element i on
freeList(m, list, i, deleter) ==
    IF i > Len(list) THEN m
    ELSE freeList(deleteData(m, list[i], deleter), list, i + 1, deleter)

deleteGpxData(m, a) == free(m, a)

deleteWaypoint(m, a) ==
    free(freeList(m, m.heap[a].otherData, 1, "deleteGpxData"), a)

\* deleteRoute that leaves the waypoints of the Route alone
deleteRouteKeepsWaypoints(m, a) ==
    free(freeList(m, m.heap[a].otherData, 1, "deleteGpxData"), a)

deleteRoute(m, a) ==
    free(freeList(freeList(m, m.heap[a].waypoints, 1, "deleteWaypoint"),
                  m.heap[a].otherData, 1, "deleteGpxData"), a)

deleteTrackSegment(m, a) ==
    free(freeList(m, m.heap[a].waypoints, 1, "deleteWaypoint"), a)

deleteTrack(m, a) ==
    free(freeList(freeList(m, m.heap[a].segments, 1, "deleteTrackSegment"),
                  m.heap[a].otherData, 1, "deleteGpxData"), a)

\* dummyDelete as a deleteData that frees the element
dummyDeleteFrees(m, a) == free(m, a)

\* dummyDelete(): the deleteData of a view, does nothing
dummyDelete(m, a) == m

deleteData(m, a, deleter) ==
    IF deleter = "dummyDelete" THEN dummyDelete(m, a)
    ELSE IF a = NULL THEN m
    ELSE IF a \notin DOMAIN m.heap THEN [m EXCEPT !.bad = TRUE]
    ELSE IF deleter = "deleteGpxData" THEN deleteGpxData(m, a)
    ELSE IF deleter = "deleteWaypoint" THEN deleteWaypoint(m, a)
    ELSE IF deleter = "deleteRoute" THEN deleteRoute(m, a)
    ELSE IF deleter = "deleteTrackSegment" THEN deleteTrackSegment(m, a)
    ELSE deleteTrack(m, a)

deleteGPXdoc(m, d) ==
    IF d = NULL THEN m
    ELSE IF d \notin DOMAIN m.heap THEN [m EXCEPT !.bad = TRUE]
    ELSE free(freeList(freeList(freeList(m,
                  m.heap[d].waypoints, 1, "deleteWaypoint"),
                  m.heap[d].routes, 1, "deleteRoute"),
                  m.heap[d].tracks, 1, "deleteTrack"), d)

(***************************************************************************)
(* createGPXdoc on the tree that xmlReadFile returns: [heap, parseFail,    *)
(* crashed, gpx], gpx the pointer handed to the caller.                    *)
(***************************************************************************)
\* lines 635-645: deleteGPXdoc(gpx) and return NULL after a failed build, gpx
\* being what buildObjects returned
Handover(b) ==
    IF b.crashed THEN b
    ELSE IF b.parseFail
    THEN [b EXCEPT !.heap = deleteGPXdoc([heap |-> b.heap, bad |-> FALSE],
                                         b.gpx).heap,
                   !.gpx = NULL]
    ELSE b

createGPXdoc(h, pf, root) ==
    Handover(buildObjects(<<root>>,
                 [heap |-> Store(h, malloc(h), RawGPXdoc), gpx |-> malloc(h),
                  parseFail |-> pf, crashed |-> FALSE]))

(***************************************************************************)
(* The model validator: IsValidGPXdoc and its helpers.  The name and list  *)
(* pointers of a struct are never NULL in the model.                       *)
(***************************************************************************)
validateGPXData(h, d) == ~(h[d].name = "" \/ h[d].value = "")

AllGPXData(h, list) == \A i \in 1..Len(list) : validateGPXData(h, list[i])

\* validateWaypoint with >= for > in the test against MAX_LATITUDE
validateWaypointExclusive(h, w) ==
    /\ ~(\/ h[w].latitude = SENTINEL_LAT_LON
         \/ h[w].latitude < MIN_LATITUDE
         \/ h[w].latitude >= MAX_LATITUDE)
    /\ ~(\/ h[w].longitude = SENTINEL_LAT_LON
         \/ h[w].longitude < MIN_LONGITUDE
         \/ h[w].longitude > MAX_LONGITUDE)
    /\ AllGPXData(h, h[w].otherData)

validateWaypoint(h, w) ==
    /\ ~(\/ h[w].latitude = SENTINEL_LAT_LON
         \/ h[w].latitude < MIN_LATITUDE
         \/ h[w].latitude > MAX_LATITUDE)
    /\ ~(\/ h[w].longitude = SENTINEL_LAT_LON
         \/ h[w].longitude < MIN_LONGITUDE
         \/ h[w].longitude > MAX_LONGITUDE)
    /\ AllGPXData(h, h[w].otherData)

validateRoute(h, r) ==
    /\ AllGPXData(h, h[r].otherData)
    /\ \A i \in 1..Len(h[r].waypoints) : validateWaypoint(h, h[r].waypoints[i])

validateTrackSegment(h, s) ==
    \A i \in 1..Len(h[s].waypoints) : validateWaypoint(h, h[s].waypoints[i])

validateTrack(h, t) ==
    /\ \A i \in 1..Len(h[t].segments) : validateTrackSegment(h, h[t].segments[i])
    /\ AllGPXData(h, h[t].otherData)

IsValidGPXdoc(h, gpx) ==
    /\ h[gpx].namespace # ""
    /\ h[gpx].version # SENTINEL_VERSION
    /\ h[gpx].creator # <<>>
    /\ \A i \in 1..Len(h[gpx].waypoints) : validateWaypoint(h, h[gpx].waypoints[i])
    /\ \A i \in 1..Len(h[gpx].routes) : validateRoute(h, h[gpx].routes[i])
    /\ \A i \in 1..Len(h[gpx].tracks) : validateTrack(h, h[gpx].tracks[i])

\* the memory after IsValidGPXdoc(gpx): the function and the validate*
\* functions it calls only compare the members they read, and assign through
\* no pointer.  The mistyped comparison gpx->version = SENTINEL_VERSION would
\* assign.
IsValidGPXdocAssigns(h, gpx) == [h EXCEPT ![gpx].version = SENTINEL_VERSION]

IsValidGPXdocStores(h, gpx) == h

(***************************************************************************)
(* The inverse serializer: ConvertGPXDocToXmlDoc and its helpers.          *)
(* xmlNewChild(parent, NULL, name, content) gives the new element one text *)
(* child, none for an empty content.                                       *)
(***************************************************************************)
xmlNewChild(name, properties, content, children) ==
    Element(name, "", properties,
            (IF content = "" THEN <<>> ELSE <<TextNode(content)>>) \o children)

ConvertGPXDataToXml(h, d) == xmlNewChild(h[d].name, <<>>, h[d].value, <<>>)

ConvertAllGPXData(h, list) ==
    [i \in 1..Len(list) |-> ConvertGPXDataToXml(h, list[i])]

ConvertWaypointToXml(h, w, wptType) ==
    xmlNewChild(wptType,
                <<Attr(LAT, FormatF(h[w].latitude)),
                  Attr(LON, FormatF(h[w].longitude))>>,
                "",
                (IF h[w].name # "" THEN <<xmlNewChild(NAME, <<>>, h[w].name, <<>>)>>
                 ELSE <<>>)
                    \o ConvertAllGPXData(h, h[w].otherData))

ConvertTrackSegmentToXml(h, s) ==
    xmlNewChild(TRKSEG, <<>>, "",
                [i \in 1..Len(h[s].waypoints) |->
                    ConvertWaypointToXml(h, h[s].waypoints[i], TRKPT)])

ConvertTrackToXml(h, t) ==
    xmlNewChild(TRK, <<>>, "",
                (IF h[t].name # "" THEN <<xmlNewChild(NAME, <<>>, h[t].name, <<>>)>>
                 ELSE <<>>)
                    \o ConvertAllGPXData(h, h[t].otherData)
                    \o [i \in 1..Len(h[t].segments) |->
                           ConvertTrackSegmentToXml(h, h[t].segments[i])])

ConvertRouteToXml(h, r) ==
    xmlNewChild(RTE, <<>>, "",
                (IF h[r].name # "" THEN <<xmlNewChild(NAME, <<>>, h[r].name, <<>>)>>
                 ELSE <<>>)
                    \o ConvertAllGPXData(h, h[r].otherData)
                    \o [i \in 1..Len(h[r].waypoints) |->
                           ConvertWaypointToXml(h, h[r].waypoints[i], RTEPT)])

\* the root element, with the children that ConvertGPXDocToXmlDoc appends
ConvertGPXdocToXml(h, gpx, children) ==
    Element(GPX, h[gpx].namespace,
            <<Attr(VERSION, FormatF1(h[gpx].version)),
              Attr(CREATOR, h[gpx].creator)>>,
            children)

\* the root element of the xmlDoc; NULL for a NULL document
ConvertGPXDocToXmlDoc(h, gpx) ==
    IF gpx = NULL THEN NULL
    ELSE ConvertGPXdocToXml(h, gpx,
            [i \in 1..Len(h[gpx].waypoints) |->
                ConvertWaypointToXml(h, h[gpx].waypoints[i], WPT)]
            \o [i \in 1..Len(h[gpx].routes) |->
                   ConvertRouteToXml(h, h[gpx].routes[i])]
            \o [i \in 1..Len(h[gpx].tracks) |->
                   ConvertTrackToXml(h, h[gpx].tracks[i])])

(***************************************************************************)
(* computeDistanceBetweenWaypoints: the haversine formula in metres.  The  *)
(* coordinates of the model lie on the grid 0, 1.5, -95, -200 degrees      *)
(* (GridDegrees); HaversineMetres holds the value of the formula, rounded  *)
(* to a metre, for every pair of grid points (lat, lon), a point being     *)
(* numbered 4 * (index of lat - 1) + index of lon.                         *)
(***************************************************************************)
GridDegrees == <<0, 1500000, -95000000, -200000000>>

GridIndex(v) == CHOOSE i \in 1..4 : GridDegrees[i] = v

HaversineMetres ==
    << <<0, 166792, 10563518, 17791188, 166792, 235867, 10563327, 17785198, 10563518, 10563327, 9959148, 9485176, 17791188, 17785198, 9485176, 3112445>>,
       <<166792, 0, 10730310, 17624396, 235867, 166792, 10730062, 17618860, 10563327, 10563518, 9944684, 9490343, 17785198, 17791188, 9328536, 3228766>>,
       <<10563518, 10730310, 0, 11675467, 10563327, 10730062, 166792, 11674882, 9959148, 9944684, 10563518, 9863817, 9485176, 9328536, 17791188, 8442353>>,
       <<17791188, 17624396, 11675467, 0, 17785198, 17618860, 11674882, 166792, 9485176, 9490343, 9863817, 10563518, 3112445, 3228766, 8442353, 17791188>>,
       <<166792, 235867, 10563327, 17785198, 0, 166735, 10558754, 17766560, 10730310, 10730119, 10125311, 9651894, 17624396, 17618806, 9428101, 2992901>>,
       <<235867, 166792, 10730062, 17618860, 166735, 0, 10725419, 17601506, 10730119, 10730310, 10110850, 9657050, 17618806, 17624396, 9271376, 3113290>>,
       <<10563327, 10730062, 166792, 11674882, 10558754, 10725419, 0, 11669779, 10125311, 10110850, 10730310, 10030017, 9428101, 9271376, 17624396, 8384027>>,
       <<17785198, 17618860, 11674882, 166792, 17766560, 17601506, 11669779, 0, 9651894, 9657050, 10030017, 10730310, 2992901, 3113290, 8384027, 17624396>>,
       <<10563518, 10563327, 9959148, 9485176, 10730310, 10730119, 10125311, 9651894, 0, 14537, 819339, 1095014, 11675467, 11675652, 12271058, 12752740>>,
       <<10563327, 10563518, 9944684, 9490343, 10730119, 10730310, 10110850, 9657050, 14537, 0, 829110, 1092387, 11675652, 11675467, 12285561, 12747415>>,
       <<9959148, 9944684, 10563518, 9863817, 10125311, 10110850, 10730310, 10030017, 819339, 829110, 0, 881753, 12271058, 12285561, 11675467, 12366866>>,
       <<9485176, 9490343, 9863817, 10563518, 9651894, 9657050, 10030017, 10730310, 1095014, 1092387, 881753, 0, 12752740, 12747415, 12366866, 11675467>>,
       <<17791188, 17785198, 9485176, 3112445, 17624396, 17618806, 9428101, 2992901, 11675467, 11675652, 12271058, 12752740, 0, 156733, 9752525, 15062744>>,
       <<17785198, 17791188, 9328536, 3228766, 17618806, 17624396, 9271376, 3113290, 11675652, 11675467, 12285561, 12747415, 156733, 0, 9899124, 14988783>>,
       <<9485176, 9328536, 17791188, 8442353, 9428101, 9271376, 17624396, 8384027, 12271058, 12285561, 11675467, 12366866, 9752525, 9899124, 0, 10719808>>,
       <<3112445, 3228766, 8442353, 17791188, 2992901, 3113290, 8384027, 17624396, 12752740, 12747415, 12366866, 11675467, 15062744, 14988783, 10719808, 0>> >>

computeDistanceBetweenWaypoints(srcLat, srcLon, destLat, destLon) ==
    HaversineMetres[4 * (GridIndex(srcLat) - 1) + GridIndex(srcLon)]
                   [4 * (GridIndex(destLat) - 1) + GridIndex(destLon)]

(***************************************************************************)
(* getRoutesBetween.  The view is a List object of the heap,               *)
(*   [kind "List", data, deleter "dummyDelete"];                           *)
(* c holds the locals numWaypoints, firstLat .. lastLon, which are set     *)
(* once, before the loop over the routes.                                  *)
(***************************************************************************)
initializeList(h, deleter) ==
    LET a == malloc(h)
    IN  [heap |-> Store(h, a, [kind |-> "List", data |-> <<>>,
                               deleter |-> deleter]),
         ptr |-> a]

\* lines 2248-2261: the loop over the waypoints of one route, from point i on
RECURSIVE ScanEnds(_, _, _, _)
ScanEnds(h, wpts, i, c) ==
    IF i > Len(wpts) THEN c
    ELSE LET wpt == h[wpts[i]]
         IN  ScanEnds(h, wpts, i + 1,
                 IF c.numWaypoints = 0
                 THEN [c EXCEPT !.firstLat = wpt.latitude,
                                !.firstLon = wpt.longitude,
                                !.numWaypoints = @ + 1]
                 ELSE [c EXCEPT !.lastLat = wpt.latitude,
                                !.lastLon = wpt.longitude,
                                !.numWaypoints = @ + 1])

\* lines 2242-2270: the loop over the routes, from route i on; found is the
\* sequence of the routes inserted so far
RECURSIVE RoutesLoop(_, _, _, _, _, _)
RoutesLoop(h, routes, i, c, q, found) ==
    IF i > Len(routes) THEN found
    ELSE LET c1 == ScanEnds(h, h[routes[i]].waypoints, 1, c)
             srcDistance  == computeDistanceBetweenWaypoints(
                                 q.sourceLat, q.sourceLong, c1.firstLat, c1.firstLon)
             destDistance == computeDistanceBetweenWaypoints(
                                 q.destLat, q.destLong, c1.lastLat, c1.lastLon)
         IN  RoutesLoop(h, routes, i + 1, c1, q,
                 IF srcDistance <= q.delta /\ destDistance <= q.delta
                 THEN Append(found, routes[i]) ELSE found)

\* getRoutesBetween(doc, sourceLat, sourceLong, destLat, destLong, delta),
\* q the five numbers: [heap, ptr], ptr the List returned or NULL
getRoutesBetween(h, d, q) ==
    IF d = NULL THEN [heap |-> h, ptr |-> NULL]
    ELSE LET l == initializeList(h, "dummyDelete")
             found == RoutesLoop(l.heap, l.heap[d].routes, 1,
                          [numWaypoints |-> 0, firstLat |-> 0, firstLon |-> 0,
                           lastLat |-> 0, lastLon |-> 0], q, <<>>)
         IN  IF found = <<>> THEN [heap |-> l.heap, ptr |-> NULL]
             ELSE [heap |-> [l.heap EXCEPT ![l.ptr].data = found],
                   ptr |-> l.ptr]

(***************************************************************************)
(* writeGPXdoc followed by xmlReadFile (line 622): xmlSaveFormatFileEnc    *)
(* with format = 1 puts every child of an element that has no text child   *)
(* on a line of its own, and the parser keeps that white space as text     *)
(* nodes.                                                                  *)
(***************************************************************************)
WS == TextNode(" ")

RECURSIVE Indent(_, _)
Indent(kids, i) ==
    IF i > Len(kids) THEN <<>> ELSE <<kids[i], WS>> \o Indent(kids, i + 1)

RECURSIVE Reparse(_)
Reparse(node) ==
    IF node.children = <<>> \/ \E i \in 1..Len(node.children) :
                                   node.children[i].type = "text"
    THEN node
    ELSE [node EXCEPT !.children =
             <<WS>> \o Indent([i \in 1..Len(node.children) |->
                                  Reparse(node.children[i])], 1)]

(***************************************************************************)
(* The input trees.  pretty = TRUE lays the element children of an element *)
(* out on lines of their own (white-space text nodes around them), FALSE   *)
(* writes them without white space.                                        *)
(***************************************************************************)
DEFAULT_NAMESPACE == "http://www.topografix.com/GPX/1/1"

Lay(kids, pretty) ==
    IF pretty /\ kids # <<>> THEN <<WS>> \o Indent(kids, 1) ELSE kids

Leaf(name, text) ==
    Element(name, "", <<>>, IF text = "" THEN <<>> ELSE <<TextNode(text)>>)

T0 == <<"0">>
T15 == <<"1", ".", "5">>
TNeg95 == <<"-", "9", "5">>
TBad == <<"a", "b", "c">>
T11 == <<"1", ".", "1">>
TMe == <<"m", "e">>

LatLon(lat, lon) == <<Attr(LAT, lat), Attr(LON, lon)>>

Point(tag, properties, kids, pretty) ==
    Element(tag, "", properties, Lay(kids, pretty))

FullProps == <<Attr(VERSION, T11), Attr(CREATOR, TMe)>>

Root(properties, kids, pretty) ==
    Element(GPX, DEFAULT_NAMESPACE, properties, Lay(kids, pretty))

\* the attributes of the root: all, no creator, empty version, no version,
\* none, a version of more than one decimal
RootProps ==
    { FullProps,
      <<Attr(VERSION, T11)>>,
      <<Attr(VERSION, <<>>), Attr(CREATOR, TMe)>>,
      <<Attr(CREATOR, TMe)>>,
      <<>>,
      <<Attr(CREATOR, TMe), Attr(VERSION, <<"1", ".", "1", "4">>)>> }

\* the attributes of a point: both, unparsable ones, out of range, missing
PointProps ==
    { LatLon(T0, T15), LatLon(T15, T0), LatLon(TBad, T15), LatLon(T0, TBad),
      LatLon(TNeg95, T0), <<Attr(LON, T15)>>, <<Attr(LAT, T15)>>, <<>>,
      <<Attr(LON, T15), Attr(LAT, T0)>> }

\* the children of a point: a name, extension data before and after it, data
\* with no text
PointKids ==
    { <<>>,
      <<Leaf(NAME, "A")>>,
      <<Leaf(NAME, "A"), Leaf("ele", "1")>>,
      <<Leaf("ele", "1"), Leaf(NAME, "A")>>,
      <<Leaf("ele", "1"), Leaf("sym", "x")>>,
      <<Leaf(NAME, "A"), Leaf("ele", "")>> }

RootTrees ==
    { Root(pr, kids, TRUE) :
        pr \in RootProps,
        kids \in { <<>>, <<Point(WPT, LatLon(T0, T15), <<Leaf(NAME, "A")>>, TRUE)>> } }

WptTrees ==
    { Root(FullProps, <<Point(WPT, pr, <<Leaf(NAME, "A")>>, pretty)>>, pretty) :
        pr \in PointProps, pretty \in BOOLEAN }
    \cup
    { Root(FullProps, <<Point(WPT, LatLon(T0, T15), kids, pretty)>>, pretty) :
        kids \in PointKids, pretty \in BOOLEAN }

\* the rte elements: named with two points, unnamed the other way round, one
\* point, a name and no point
P0 == LatLon(T0, T0)
P1 == LatLon(T0, T15)
P2 == LatLon(T15, T15)

RouteShapes ==
    { <<Leaf(NAME, "R"), Point(RTEPT, P0, <<>>, TRUE), Point(RTEPT, P1, <<>>, TRUE)>>,
      <<Point(RTEPT, P1, <<Leaf(NAME, "B")>>, TRUE), Point(RTEPT, P0, <<>>, TRUE)>>,
      <<Point(RTEPT, P2, <<>>, TRUE)>>,
      <<Leaf(NAME, "R"), Leaf("desc", "d")>> }

RECURSIVE SeqsUpTo(_, _)
SeqsUpTo(S, n) ==
    IF n = 0 THEN { <<>> }
    ELSE LET shorter == SeqsUpTo(S, n - 1)
         IN  shorter \cup { Append(q, x) : q \in shorter, x \in S }

RouteTrees ==
    { Root(FullProps, [i \in 1..Len(rs) |-> Element(RTE, "", <<>>, Lay(rs[i], TRUE))],
           TRUE) : rs \in SeqsUpTo(RouteShapes, MaxRoutes) \ { <<>> } }

\* a named track with data and two segments; trkseg and trkpt with no
\* enclosing trk; all three kinds together
ATrack(pretty) ==
    Element(TRK, "", <<>>,
        Lay(<<Leaf(NAME, "T"), Leaf("desc", "d"),
              Element(TRKSEG, "", <<>>,
                  Lay(<<Point(TRKPT, P0, <<>>, pretty),
                        Point(TRKPT, P1, <<Leaf(NAME, "A")>>, pretty)>>, pretty)),
              Element(TRKSEG, "", <<>>,
                  Lay(<<Point(TRKPT, P2, <<>>, pretty)>>, pretty))>>, pretty))

ARoute(pretty) ==
    Element(RTE, "", <<>>,
        Lay(<<Leaf(NAME, "R"), Point(RTEPT, P0, <<>>, pretty),
              Point(RTEPT, P1, <<>>, pretty)>>, pretty))

TrackTrees ==
    { Root(FullProps, <<ATrack(pretty)>>, pretty) : pretty \in BOOLEAN }
    \cup
    { Root(FullProps,
           <<Point(WPT, P1, <<Leaf(NAME, "A"), Leaf("ele", "1")>>, pretty),
             ARoute(pretty), ATrack(pretty)>>, pretty) : pretty \in BOOLEAN }
    \cup
    { Root(FullProps, <<Element(TRKSEG, "", <<>>, <<>>),
                        Point(TRKPT, P0, <<>>, TRUE)>>, TRUE),
      Root(FullProps, <<Point(TRKPT, P0, <<>>, TRUE), Point(RTEPT, P1, <<>>, TRUE)>>,
           TRUE) }

\* trees on which buildGPXData returns NULL below the children of the root,
\* and a rte with no child at all
DeepTrees ==
    { Root(FullProps,
           <<Element(RTE, "", <<>>,
                 Lay(<<Point(RTEPT, P0, <<Leaf("ele", "1"), Leaf("sym", "")>>, pretty)>>,
                     pretty)),
             Point(WPT, P1, <<>>, pretty)>>, pretty) : pretty \in BOOLEAN }
    \cup
    { Root(FullProps, <<Element(TRK, "", <<>>,
                            Lay(<<Leaf(NAME, "T"), Leaf("desc", "")>>, TRUE))>>, TRUE),
      Root(FullProps, <<Element(RTE, "", <<>>, <<>>)>>, TRUE) }

Trees == RootTrees \cup WptTrees \cup RouteTrees \cup TrackTrees \cup DeepTrees

NoTree == TextNode("")

(***************************************************************************)
(* The calls of a program that uses the library: one document at a time.   *)
(***************************************************************************)
Call(op, val, arg) == [op |-> op, val |-> val, arg |-> arg]

Lists(h) == { a \in DOMAIN h : h[a].kind = "List" }

\* the five numbers of a proximity query
QueryPoints == { <<0, 0>>, <<0, 1500000>>, <<1500000, 1500000>> }

Queries ==
    { [sourceLat |-> s[1], sourceLong |-> s[2], destLat |-> d[1],
       destLong |-> d[2], delta |-> delta] :
        s \in QueryPoints, d \in QueryPoints, delta \in {0, 200000} }

Init ==
    /\ heap = EmptyHeap
    /\ parseFail = FALSE
    /\ doc = NULL
    /\ view = NULL
    /\ crashed = FALSE
    /\ tree = [root |-> NoTree, origin |-> NoTree]
    /\ xdoc = NoTree
    /\ ret = Call("none", NULL, NULL)
    /\ failures = 0

\* the caller receives r, the outcome of createGPXdoc
Returned(r) ==
    /\ heap' = r.heap
    /\ parseFail' = r.parseFail
    /\ crashed' = r.crashed
    /\ doc' = IF r.crashed THEN NULL ELSE r.gpx
    /\ failures' = IF r.crashed \/ r.gpx = NULL THEN failures + 1 ELSE failures
    /\ ret' = Call("createGPXdoc", IF r.crashed THEN NULL ELSE r.gpx, DOMAIN heap)

\* gpx = createGPXdoc(fileName), the file holding the tree root
Create(root, origin) ==
    /\ ~crashed
    /\ doc = NULL
    /\ view = NULL
    /\ Lists(heap) = {}
    /\ failures < MaxFailures
    /\ Returned(createGPXdoc(heap, parseFail, root))
    /\ tree' = [root |-> root, origin |-> origin]
    /\ xdoc' = NoTree
    /\ UNCHANGED view

CreateFromFile == \E t \in Trees : Create(t, NoTree)

\* the xmlDoc of ConvertGPXDocToXmlDoc read again: as it is in memory
CreateFromXmlDoc == xdoc # NoTree /\ Create(xdoc, xdoc)

\* the xmlDoc of ConvertGPXDocToXmlDoc read again: from the file writeGPXdoc
\* writes
CreateFromWrittenFile == xdoc # NoTree /\ Create(Reparse(xdoc), xdoc)

DeleteGPXdoc ==
    /\ ~crashed
    /\ doc # NULL
    /\ LET m == deleteGPXdoc([heap |-> heap, bad |-> FALSE], doc)
       IN  /\ heap' = m.heap
           /\ crashed' = m.bad
    /\ doc' = NULL
    /\ ret' = Call("deleteGPXdoc", NULL, DOMAIN heap)
    /\ UNCHANGED <<parseFail, view, tree, xdoc, failures>>

\* IsValidGPXdoc(doc); arg counts the calls in a row, up to 2
Validate ==
    /\ ~crashed
    /\ doc # NULL
    /\ ret' = Call("IsValidGPXdoc", IsValidGPXdoc(heap, doc),
                   IF ret.op = "IsValidGPXdoc" THEN 2 ELSE 1)
    /\ heap' = IsValidGPXdocStores(heap, doc)
    /\ UNCHANGED <<parseFail, doc, view, crashed, tree, xdoc, failures>>

ToXmlDoc ==
    /\ ~crashed
    /\ doc # NULL
    /\ xdoc' = ConvertGPXDocToXmlDoc(heap, doc)
    /\ ret' = Call("ConvertGPXDocToXmlDoc", NULL, NULL)
    /\ UNCHANGED <<heap, parseFail, doc, view, crashed, tree, failures>>

RoutesBetween ==
    /\ ~crashed
    /\ doc # NULL
    /\ view = NULL
    /\ Cardinality(Lists(heap)) < MaxLists
    /\ \E q \in Queries :
          LET r == getRoutesBetween(heap, doc, q)
          IN  /\ heap' = r.heap
              /\ view' = r.ptr
              /\ ret' = Call("getRoutesBetween", r.ptr, q)
    /\ UNCHANGED <<parseFail, doc, crashed, tree, xdoc, failures>>

\* freeList(view); the call returns nothing, val keeps the elements the view
\* held
FreeView ==
    /\ ~crashed
    /\ view # NULL
    /\ LET m == free(freeList([heap |-> heap, bad |-> FALSE],
                              heap[view].data, 1, heap[view].deleter), view)
       IN  /\ heap' = m.heap
           /\ crashed' = m.bad
    /\ view' = NULL
    /\ ret' = Call("freeList", heap[view].data, DOMAIN heap)
    /\ UNCHANGED <<parseFail, doc, tree, xdoc, failures>>

Next ==
    \/ CreateFromFile
    \/ CreateFromXmlDoc
    \/ CreateFromWrittenFile
    \/ DeleteGPXdoc
    \/ Validate
    \/ ToXmlDoc
    \/ RoutesBetween
    \/ FreeView

Spec == Init /\ [][Next]_vars

(***************************************************************************)
(* What the properties below speak about.                                  *)
(***************************************************************************)
HasProp(node, name) ==
    \E i \in 1..Len(node.properties) : node.properties[i].name = name

PropOf(node, name) ==
    node.properties[CHOOSE i \in 1..Len(node.properties) :
                        node.properties[i].name = name].cont

IsElement(node) == node.type = "element"

\* the element children of a node, in document order
Kids(node) == SelectSeq(node.children, IsElement)

\* a decimal number and nothing else: [sign] digits [. digits]
IsDecimal(s) ==
    LET start == IF Len(s) >= 1 /\ s[1] \in {"-", "+"} THEN 2 ELSE 1
        ip    == ScanDigits(s, start, 0, 0)
        dot   == start + ip.n
        fp    == ScanDigits(s, dot + 1, 0, 0)
    IN  /\ ip.n >= 1
        /\ \/ dot = Len(s) + 1
           \/ dot <= Len(s) /\ s[dot] = "." /\ fp.n >= 1
                            /\ dot + fp.n = Len(s)

\* the Document at address d as a value: its fields and, in order, the values
\* of the entities it owns
DataValue(h, a) == [name |-> h[a].name, value |-> h[a].value]

WaypointValue(h, a) ==
    [name |-> h[a].name, latitude |-> h[a].latitude, longitude |-> h[a].longitude,
     otherData |-> [i \in 1..Len(h[a].otherData) |-> DataValue(h, h[a].otherData[i])]]

RouteValue(h, a) ==
    [name |-> h[a].name,
     waypoints |-> [i \in 1..Len(h[a].waypoints) |->
                       WaypointValue(h, h[a].waypoints[i])],
     otherData |-> [i \in 1..Len(h[a].otherData) |-> DataValue(h, h[a].otherData[i])]]

SegmentValue(h, a) ==
    [i \in 1..Len(h[a].waypoints) |-> WaypointValue(h, h[a].waypoints[i])]

TrackValue(h, a) ==
    [name |-> h[a].name,
     segments |-> [i \in 1..Len(h[a].segments) |-> SegmentValue(h, h[a].segments[i])],
     otherData |-> [i \in 1..Len(h[a].otherData) |-> DataValue(h, h[a].otherData[i])]]

DocumentValue(h, d) ==
    [namespace |-> h[d].namespace, version |-> h[d].version,
     creator |-> h[d].creator,
     waypoints |-> [i \in 1..Len(h[d].waypoints) |->
                       WaypointValue(h, h[d].waypoints[i])],
     routes |-> [i \in 1..Len(h[d].routes) |-> RouteValue(h, h[d].routes[i])],
     tracks |-> [i \in 1..Len(h[d].tracks) |-> TrackValue(h, h[d].tracks[i])]]

\* the waypoints of a Document at every level
AllWaypoints(h, d) ==
    { h[d].waypoints[i] : i \in 1..Len(h[d].waypoints) }
    \cup UNION { { h[r].waypoints[i] : i \in 1..Len(h[r].waypoints) } :
                    r \in { h[d].routes[j] : j \in 1..Len(h[d].routes) } }
    \cup UNION { UNION { { h[g].waypoints[i] : i \in 1..Len(h[g].waypoints) } :
                            g \in { h[t].segments[k] : k \in 1..Len(h[t].segments) } } :
                    t \in { h[d].tracks[j] : j \in 1..Len(h[d].tracks) } }

\* the ExtensionFields of every Waypoint, Route and Track of a Document
AllExtensionFields(h, d) ==
    UNION { { h[o].otherData[i] : i \in 1..Len(h[o].otherData) } :
               o \in AllWaypoints(h, d)
                     \cup { h[d].routes[j] : j \in 1..Len(h[d].routes) }
                     \cup { h[d].tracks[j] : j \in 1..Len(h[d].tracks) } }

Built == ret.op = "createGPXdoc"

(***************************************************************************)
(* C1.  Build of a tree whose gpx element has no creator attribute reports *)
(* failure and returns no Document.                                        *)
(***************************************************************************)
C1_NoCreatorFails ==
    (Built /\ ~HasProp(tree.root, CREATOR)) => (~crashed /\ ret.val = NULL)

(***************************************************************************)
(* C2.  When Build reports failure, every entity allocated during that     *)
(* Build has been destroyed when the caller receives the absent result:    *)
(* the objects alive are those that were alive before the call (ret.arg).  *)
(***************************************************************************)
C2_FailedBuildLeavesNothing ==
    (Built /\ ~crashed /\ ret.val = NULL) => (DOMAIN heap) \subseteq ret.arg

(***************************************************************************)
(* C3.  The outcome of Build depends only on its input tree: a tree that   *)
(* builds successfully on its own builds successfully, to an equal         *)
(* Document, after any calls made before.                                  *)
(***************************************************************************)
C3_BuildDependsOnlyOnTree ==
    Built =>
        LET alone == createGPXdoc(EmptyHeap, FALSE, tree.root)
        IN  (~alone.crashed /\ alone.gpx # NULL) =>
                /\ ~crashed
                /\ ret.val # NULL
                /\ DocumentValue(heap, ret.val) = DocumentValue(alone.heap, alone.gpx)

(***************************************************************************)
(* Well-formed trees and their restriction to what a Document represents.  *)
(***************************************************************************)
IsWhitespace(node) == node.type = "text" /\ node.content \in {"", WS.content}

\* <tag>text</tag> with a non-empty text and no attribute
IsTextLeaf(node) ==
    /\ IsElement(node)
    /\ node.properties = <<>>
    /\ Len(node.children) = 1
    /\ node.children[1].type = "text"
    /\ node.children[1].content \notin {"", WS.content}

Structural == {GPX, WPT, RTE, TRK, TRKSEG, TRKPT, RTEPT, NAME, TEXT}

\* an element holds element children only, laid out with or without
\* whitespace between them
OnlyElements(node) ==
    \A i \in 1..Len(node.children) :
        IsElement(node.children[i]) \/ IsWhitespace(node.children[i])

\* the children are an optional name, then extension elements, then elements
\* named in last (in the order of last)
RankOf(node, last) ==
    IF node.name = NAME /\ IsTextLeaf(node) THEN 1
    ELSE IF node.name \notin Structural /\ IsTextLeaf(node) THEN 2
    ELSE IF \E i \in 1..Len(last) : last[i] = node.name
         THEN 2 + (CHOOSE i \in 1..Len(last) : last[i] = node.name)
    ELSE 0

InOrder(node, last) ==
    LET kids == Kids(node)
    IN  /\ OnlyElements(node)
        /\ \A i \in 1..Len(kids) : RankOf(kids[i], last) > 0
        /\ \A i \in 1..Len(kids) : \A j \in 1..Len(kids) :
               i < j => RankOf(kids[i], last) <= RankOf(kids[j], last)
        /\ Cardinality({ i \in 1..Len(kids) : kids[i].name = NAME }) <= 1

WellFormedPoint(node) ==
    /\ InOrder(node, <<>>)
    /\ HasProp(node, LAT) /\ IsDecimal(PropOf(node, LAT))
    /\ HasProp(node, LON) /\ IsDecimal(PropOf(node, LON))

WellFormedUnder(node, last, Inner(_)) ==
    /\ InOrder(node, last)
    /\ \A i \in 1..Len(node.children) :
           (IsElement(node.children[i])
            /\ \E k \in 1..Len(last) : last[k] = node.children[i].name)
               => Inner(node.children[i])

WellFormedSegment(node) == WellFormedUnder(node, <<TRKPT>>, WellFormedPoint)

WellFormedRoute(node) == WellFormedUnder(node, <<RTEPT>>, WellFormedPoint)

WellFormedTrack(node) == WellFormedUnder(node, <<TRKSEG>>, WellFormedSegment)

WellFormedChild(node) ==
    CASE node.name = WPT -> WellFormedPoint(node)
      [] node.name = RTE -> WellFormedRoute(node)
      [] node.name = TRK -> WellFormedTrack(node)
      [] OTHER -> FALSE

WellFormed(root) ==
    /\ IsElement(root) /\ root.name = GPX /\ root.ns # ""
    /\ HasProp(root, VERSION) /\ IsDecimal(PropOf(root, VERSION))
    /\ HasProp(root, CREATOR) /\ PropOf(root, CREATOR) # <<>>
    /\ OnlyElements(root)
    /\ \A i \in 1..Len(Kids(root)) :
           /\ Kids(root)[i].name \in {WPT, RTE, TRK}
           /\ RankOf(Kids(root)[i], <<WPT, RTE, TRK>>) > 2
           /\ WellFormedChild(Kids(root)[i])
    /\ \A i \in 1..Len(Kids(root)) : \A j \in 1..Len(Kids(root)) :
           i < j => RankOf(Kids(root)[i], <<WPT, RTE, TRK>>)
                       <= RankOf(Kids(root)[j], <<WPT, RTE, TRK>>)

\* the tree restricted to the represented fields: whitespace dropped, the
\* namespace on the root only, coordinates with six decimals, the version
\* with one
RestrictPoint(node) ==
    [node EXCEPT !.ns = "",
                 !.properties = <<Attr(LAT, FormatF(strtod(PropOf(node, LAT)))),
                                  Attr(LON, FormatF(strtod(PropOf(node, LON))))>>,
                 !.children = Kids(node)]

RestrictUnder(node, Inner(_)) ==
    [node EXCEPT !.ns = "",
                 !.properties = <<>>,
                 !.children = [i \in 1..Len(Kids(node)) |->
                                  IF IsTextLeaf(Kids(node)[i]) THEN Kids(node)[i]
                                  ELSE Inner(Kids(node)[i])]]

RestrictSegment(node) == RestrictUnder(node, RestrictPoint)

RestrictRoute(node) == RestrictUnder(node, RestrictPoint)

RestrictTrack(node) == RestrictUnder(node, RestrictSegment)

RestrictChild(node) ==
    CASE node.name = WPT -> RestrictPoint(node)
      [] node.name = RTE -> RestrictRoute(node)
      [] OTHER -> RestrictTrack(node)

Restrict(root) ==
    [root EXCEPT !.properties = <<Attr(VERSION, FormatF1(strtod(PropOf(root, VERSION)))),
                                  Attr(CREATOR, PropOf(root, CREATOR))>>,
                 !.children = [i \in 1..Len(Kids(root)) |-> RestrictChild(Kids(root)[i])]]

(***************************************************************************)
(* C4.  For a well-formed tree t, the tree produced from the Document      *)
(* built from t equals t restricted to the fields a Document represents.   *)
(***************************************************************************)
C4_TreeRoundTrip ==
    (ret.op = "ConvertGPXDocToXmlDoc" /\ WellFormed(tree.root))
        => xdoc = Restrict(tree.root)

(***************************************************************************)
(* C5.  Building from the tree produced from a Document d and producing a  *)
(* tree again gives the tree produced from d.  tree.origin is the tree     *)
(* produced from d, tree.root what Build read of it.                       *)
(***************************************************************************)
C5_TreeIsFixedPoint ==
    (Built /\ tree.origin # NoTree)
        => /\ ~crashed
           /\ ret.val # NULL
           /\ ConvertGPXDocToXmlDoc(heap, ret.val) = tree.origin

(***************************************************************************)
(* C6.  A wpt whose lat attribute is present but is not a number gives a   *)
(* Waypoint whose latitude is the sentinel; Build succeeds and the         *)
(* validator answers false.                                                *)
(***************************************************************************)
C6_UnparsableLatitudeIsSentinel ==
    LET pts == Kids(tree.root)
    IN  (/\ Built
         /\ Len(pts) = 1 /\ pts[1].name = WPT
         /\ HasProp(pts[1], LAT) /\ ~IsDecimal(PropOf(pts[1], LAT)))
            => /\ ~crashed
               /\ ret.val # NULL
               /\ Len(heap[ret.val].waypoints) = 1
               /\ heap[heap[ret.val].waypoints[1]].latitude = SENTINEL_LAT_LON
               /\ ~IsValidGPXdoc(heap, ret.val)

(***************************************************************************)
(* C7.  A missing or empty version attribute does not fail Build: the      *)
(* Document has the sentinel version and the validator answers false.      *)
(***************************************************************************)
C7_MissingVersionIsSentinel ==
    (/\ Built
     /\ Kids(tree.root) = <<>>
     /\ HasProp(tree.root, VERSION) => PropOf(tree.root, VERSION) = <<>>)
        => /\ ~crashed
           /\ ret.val # NULL
           /\ heap[ret.val].version = SENTINEL_VERSION
           /\ ~IsValidGPXdoc(heap, ret.val)

(***************************************************************************)
(* C10.  getRoutesBetween returns, in the order of the Document, exactly   *)
(* the Routes whose own first waypoint is within delta of the source point *)
(* and whose own last waypoint is within delta of the destination point,   *)
(* whatever the other Routes of the Document hold, and an absent result    *)
(* when there is none.                                                     *)
(***************************************************************************)
IsBetween(h, r, q) ==
    LET wpts == h[r].waypoints
    IN  /\ wpts # <<>>
        /\ computeDistanceBetweenWaypoints(q.sourceLat, q.sourceLong,
               h[wpts[1]].latitude, h[wpts[1]].longitude) <= q.delta
        /\ computeDistanceBetweenWaypoints(q.destLat, q.destLong,
               h[wpts[Len(wpts)]].latitude, h[wpts[Len(wpts)]].longitude) <= q.delta

C10_RoutesBetweenOwnEnds ==
    ret.op = "getRoutesBetween" =>
        LET q == ret.arg
            IsFound(r) == IsBetween(heap, r, q)
            expected == SelectSeq(heap[doc].routes, IsFound)
        IN  IF expected = <<>> THEN ret.val = NULL
            ELSE ret.val # NULL /\ heap[ret.val].data = expected

(***************************************************************************)
(* Documents assembled by a caller from the structs, for the validator:    *)
(* Build gives no ExtensionField with an empty name or value.  A document  *)
(* is given as a value (see DocumentValue) and loaded into the memory, the *)
(* owned objects first.                                                    *)
(***************************************************************************)
RECURSIVE Load(_, _, _)
RECURSIVE LoadAll(_, _, _, _)
LoadAll(h, vals, i, kind) ==
    IF i > Len(vals) THEN [heap |-> h, ptrs |-> <<>>]
    ELSE LET x    == Load(h, vals[i], kind)
             rest == LoadAll(x.heap, vals, i + 1, kind)
         IN  [ptrs |-> <<x.ptr>> \o rest.ptrs, heap |-> rest.heap]

Load(h, v, kind) ==
    CASE kind = "GPXData" ->
            [heap |-> Store(h, malloc(h), [kind |-> "GPXData", name |-> v.name,
                                           value |-> v.value]),
             ptr |-> malloc(h)]
      [] kind = "Waypoint" ->
            LET d == LoadAll(h, v.otherData, 1, "GPXData")
            IN  [heap |-> Store(d.heap, malloc(d.heap),
                            [kind |-> "Waypoint", name |-> v.name,
                             longitude |-> v.longitude, latitude |-> v.latitude,
                             otherData |-> d.ptrs]),
                 ptr |-> malloc(d.heap)]
      [] kind = "TrackSegment" ->
            LET w == LoadAll(h, v, 1, "Waypoint")
            IN  [heap |-> Store(w.heap, malloc(w.heap),
                            [kind |-> "TrackSegment", waypoints |-> w.ptrs]),
                 ptr |-> malloc(w.heap)]
      [] kind = "Route" ->
            LET d == LoadAll(h, v.otherData, 1, "GPXData")
                w == LoadAll(d.heap, v.waypoints, 1, "Waypoint")
            IN  [heap |-> Store(w.heap, malloc(w.heap),
                            [kind |-> "Route", name |-> v.name,
                             waypoints |-> w.ptrs, otherData |-> d.ptrs]),
                 ptr |-> malloc(w.heap)]
      [] kind = "Track" ->
            LET d == LoadAll(h, v.otherData, 1, "GPXData")
                g == LoadAll(d.heap, v.segments, 1, "TrackSegment")
            IN  [heap |-> Store(g.heap, malloc(g.heap),
                            [kind |-> "Track", name |-> v.name,
                             segments |-> g.ptrs, otherData |-> d.ptrs]),
                 ptr |-> malloc(g.heap)]
      [] OTHER ->
            LET w == LoadAll(h, v.waypoints, 1, "Waypoint")
                r == LoadAll(w.heap, v.routes, 1, "Route")
                t == LoadAll(r.heap, v.tracks, 1, "Track")
            IN  [heap |-> Store(t.heap, malloc(t.heap),
                            [kind |-> "GPXdoc", namespace |-> v.namespace,
                             version |-> v.version, creator |-> v.creator,
                             waypoints |-> w.ptrs, routes |-> r.ptrs,
                             tracks |-> t.ptrs, built |-> TRUE]),
                 ptr |-> malloc(t.heap)]

\* ExtensionFields: a valid one, one with no name, one with no value
OkData == [name |-> "ele", value |-> "1"]

BadData == { [name |-> "", value |-> "1"], [name |-> "ele", value |-> ""] }

DataLists ==
    { <<>>, <<OkData>> } \cup { <<d>> : d \in BadData }
    \cup { <<OkData, d>> : d \in BadData } \cup { <<d, OkData>> : d \in BadData }

WaypointOf(lat, lon, data) ==
    [name |-> "", latitude |-> lat, longitude |-> lon, otherData |-> data]

\* coordinates in millionths of a degree: inside the ranges, on their bounds,
\* one millionth outside them, the sentinel
Coordinates ==
    { <<0, 0>>, <<90 * Scale, 180 * Scale>>, <<-90 * Scale, -180 * Scale>>,
      <<90 * Scale + 1, 0>>, <<-90 * Scale - 1, 0>>,
      <<0, 180 * Scale + 1>>, <<0, -180 * Scale - 1>>,
      <<-200 * Scale, 0>>, <<0, -200 * Scale>> }

Waypoints ==
    { WaypointOf(c[1], c[2], <<>>) : c \in Coordinates }
    \cup { WaypointOf(0, 0, data) : data \in DataLists }

OkWaypoint == WaypointOf(0, 0, <<OkData>>)

\* x on its own, after a valid element, before a valid element
Arrange(x, ok) == { <<x>>, <<ok, x>>, <<x, ok>> }

RouteOf(wpts, data) == [name |-> "R", waypoints |-> wpts, otherData |-> data]

TrackOf(segs, data) == [name |-> "T", segments |-> segs, otherData |-> data]

OkRoute == RouteOf(<<OkWaypoint>>, <<OkData>>)

OkTrack == TrackOf(<<<<OkWaypoint>>>>, <<OkData>>)

DocumentOf(ns, version, creator, wpts, routes, tracks) ==
    [namespace |-> ns, version |-> version, creator |-> creator,
     waypoints |-> wpts, routes |-> routes, tracks |-> tracks]

FullDocument(wpts, routes, tracks) ==
    DocumentOf(DEFAULT_NAMESPACE, 1100000, TMe, wpts, routes, tracks)

WaypointLists == UNION { Arrange(w, OkWaypoint) : w \in Waypoints }

ValidatorDocuments ==
    { DocumentOf(ns, version, creator, <<OkWaypoint>>, <<OkRoute>>, <<OkTrack>>) :
        ns \in {"", DEFAULT_NAMESPACE}, version \in {SENTINEL_VERSION, 1100000},
        creator \in {<<>>, TMe} }
    \cup { FullDocument(<<>>, <<>>, <<>>) }
    \cup { FullDocument(ws, <<>>, <<>>) : ws \in WaypointLists }
    \cup UNION { { FullDocument(<<>>, rs, <<>>) :
                     rs \in Arrange(RouteOf(ws, <<>>), OkRoute) } :
                   ws \in WaypointLists }
    \cup UNION { { FullDocument(<<>>, rs, <<>>) :
                     rs \in Arrange(RouteOf(<<>>, data), OkRoute) } :
                   data \in DataLists }
    \cup UNION { { FullDocument(<<>>, <<>>, ts) :
                     ts \in Arrange(TrackOf(<<ws>>, <<>>), OkTrack)
                            \cup { <<TrackOf(<<<<OkWaypoint>>, ws>>, <<>>)>>,
                                   <<TrackOf(<<ws, <<OkWaypoint>>>>, <<>>)>> } } :
                   ws \in WaypointLists }
    \cup UNION { { FullDocument(<<>>, <<>>, ts) :
                     ts \in Arrange(TrackOf(<<>>, data), OkTrack) } :
                   data \in DataLists }

\* a program that holds one assembled document and validates it
InitValidator ==
    /\ \E v \in ValidatorDocuments :
          LET l == Load(EmptyHeap, v, "GPXdoc")
          IN  heap = l.heap /\ doc = l.ptr
    /\ parseFail = FALSE
    /\ view = NULL
    /\ crashed = FALSE
    /\ tree = [root |-> NoTree, origin |-> NoTree]
    /\ xdoc = NoTree
    /\ ret = Call("none", NULL, NULL)
    /\ failures = 0

NextValidator == Validate

SpecValidator == InitValidator /\ [][NextValidator]_vars

(***************************************************************************)
(* C8.  The validator returns true for a Document if and only if its       *)
(* namespace and creator are non-empty, its version is not the sentinel,   *)
(* every Waypoint at every level has its latitude in [-90, 90] and its     *)
(* longitude in [-180, 180], bounds included and the sentinel rejected,    *)
(* and every ExtensionField of every Waypoint, Route and Track has a       *)
(* non-empty name and a non-empty value.                                   *)
(***************************************************************************)
ValidAsStated(h, d) ==
    /\ h[d].namespace # "" /\ h[d].creator # <<>>
    /\ h[d].version # -1 * Scale
    /\ \A w \in AllWaypoints(h, d) :
           /\ h[w].latitude \in (-90 * Scale)..(90 * Scale)
           /\ h[w].longitude \in (-180 * Scale)..(180 * Scale)
           /\ h[w].latitude # -200 * Scale /\ h[w].longitude # -200 * Scale
    /\ \A e \in AllExtensionFields(h, d) : h[e].name # "" /\ h[e].value # ""

C8_ValidatorIffStated ==
    ret.op = "IsValidGPXdoc" => (ret.val <=> ValidAsStated(heap, doc))

\* a Document with a point on the bounds of both ranges is found valid
C8_Witness ==
    /\ ret.op = "IsValidGPXdoc" /\ ret.val
    /\ \E w \in AllWaypoints(heap, doc) :
           heap[w].latitude = 90 * Scale /\ heap[w].longitude = 180 * Scale

EndsWithin(c, q) ==
    /\ computeDistanceBetweenWaypoints(q.sourceLat, q.sourceLong,
                                       c.firstLat, c.firstLon) <= q.delta
    /\ computeDistanceBetweenWaypoints(q.destLat, q.destLong,
                                       c.lastLat, c.lastLon) <= q.delta

\* the loop over the segments of track t, from segment j on: [c, found]
RECURSIVE SegmentsLoop(_, _, _, _, _, _, _)
\* the test after segment j, whose waypoints left the locals c
AfterSegment(h, t, segs, j, c, q, found) ==
    SegmentsLoop(h, t, segs, j + 1, c, q,
                 IF EndsWithin(c, q) THEN Append(found, t) ELSE found)

SegmentsLoop(h, t, segs, j, c, q, found) ==
    IF j > Len(segs) THEN [c |-> c, found |-> found]
    ELSE AfterSegment(h, t, segs, j, ScanEnds(h, h[segs[j]].waypoints, 1, c),
                      q, found)

RECURSIVE TracksLoop(_, _, _, _, _, _)
\* the tracks after track i, whose segments left r = [c, found]
AfterTrack(h, tracks, i, q, r) ==
    TracksLoop(h, tracks, i + 1, r.c, q, r.found)

TracksLoop(h, tracks, i, c, q, found) ==
    IF i > Len(tracks) THEN found
    ELSE AfterTrack(h, tracks, i, q,
             SegmentsLoop(h, tracks[i], h[tracks[i]].segments, 1, c, q, found))

\* the List handed to the caller: NULL when nothing was inserted, the List
\* itself staying allocated
ReturnList(l, found) ==
    IF found = <<>> THEN [heap |-> l.heap, ptr |-> NULL]
    ELSE [heap |-> [l.heap EXCEPT ![l.ptr].data = found], ptr |-> l.ptr]

TracksInto(l, d, q) ==
    ReturnList(l, TracksLoop(l.heap, l.heap[d].tracks, 1,
                   [numWaypoints |-> 0, firstLat |-> 0, firstLon |-> 0,
                    lastLat |-> 0, lastLon |-> 0], q, <<>>))

getTracksBetween(h, d, q) ==
    IF d = NULL THEN [heap |-> h, ptr |-> NULL]
    ELSE TracksInto(initializeList(h, "dummyDelete"), d, q)

(***************************************************************************)
(* Lengths in metres: round10, getRouteLen, getTrackLen and the counts of  *)
(* routes and tracks of a length.  A float length is an integer number of  *)
(* metres here, as the distances of HaversineMetres are.                   *)
(***************************************************************************)
\* round10 with 9 added for 5: the next multiple of 10 at or above len
round10Up(len) == ((len + 9) \div 10) * 10

\* int div10 = (len + 5) / 10; the division of the sum truncates
round10(len) == ((len + 5) \div 10) * 10

\* lines 2014-2026: the loop over the waypoints from point i on, c the locals
\* count, tempLat, tempLon and the length so far; first tells whether the
\* waypoint met with count = 0 only sets tempLat and tempLon
RECURSIVE LengthLoop(_, _, _, _, _)
LengthLoop(h, wpts, i, c, first) ==
    IF i > Len(wpts) THEN c
    ELSE LengthLoop(h, wpts, i + 1,
             [count   |-> c.count + 1,
              tempLat |-> h[wpts[i]].latitude,
              tempLon |-> h[wpts[i]].longitude,
              length  |-> IF c.count = 0 /\ first THEN c.length
                          ELSE c.length + computeDistanceBetweenWaypoints(
                                   c.tempLat, c.tempLon,
                                   h[wpts[i]].latitude, h[wpts[i]].longitude)],
             first)

NoLength == [count |-> 0, tempLat |-> 0, tempLon |-> 0, length |-> 0]

\* the distance between the ends that ScanEnds found, 0 for fewer than two
EndsDistance(c) ==
    IF c.numWaypoints < 2 THEN 0
    ELSE computeDistanceBetweenWaypoints(c.firstLat, c.firstLon,
                                         c.lastLat, c.lastLon)

\* getRouteLen with the first waypoint measured from tempLat, tempLon as they
\* are initialised
getRouteLenFromOrigin(h, rt) ==
    IF rt = NULL THEN 0
    ELSE LengthLoop(h, h[rt].waypoints, 1, NoLength, FALSE).length

\* getRouteLen as the distance from the first waypoint to the last
getRouteLenBetweenEnds(h, rt) ==
    IF rt = NULL THEN 0
    ELSE EndsDistance(ScanEnds(h, h[rt].waypoints, 1,
             [numWaypoints |-> 0, firstLat |-> 0, firstLon |-> 0,
              lastLat |-> 0, lastLon |-> 0]))

getRouteLen(h, rt) ==
    IF rt = NULL THEN 0
    ELSE LengthLoop(h, h[rt].waypoints, 1, NoLength, TRUE).length

\* lines 2045-2068: the loop over the segments; count is not reset between
\* them and the first waypoint is the one met with count = 0 and segCount = 0
RECURSIVE SegmentsLengthLoop(_, _, _, _)
SegmentsLengthLoop(h, segs, j, c) ==
    IF j > Len(segs) THEN c
    ELSE SegmentsLengthLoop(h, segs, j + 1,
             LengthLoop(h, h[segs[j]].waypoints, 1, c, j = 1))

getTrackLen(h, tr) ==
    IF tr = NULL THEN 0
    ELSE SegmentsLengthLoop(h, h[tr].segments, 1, NoLength).length

\* WithinDelta with a negative lenDifference left as it is
WithinDeltaSigned(length, len, delta) == length - len <= delta

\* lenDifference, made positive, against delta
WithinDelta(length, len, delta) ==
    (IF length - len < 0 THEN (length - len) * (-1) ELSE length - len) <= delta

RECURSIVE CountRoutes(_, _, _, _, _)
CountRoutes(h, routes, i, len, delta) ==
    IF i > Len(routes) THEN 0
    ELSE (IF WithinDelta(getRouteLen(h, routes[i]), len, delta) THEN 1 ELSE 0)
         + CountRoutes(h, routes, i + 1, len, delta)

numRoutesWithLength(h, d, len, delta) ==
    IF d = NULL \/ len < 0 \/ delta < 0 THEN 0
    ELSE CountRoutes(h, h[d].routes, 1, len, delta)

RECURSIVE CountTracks(_, _, _, _, _)
CountTracks(h, tracks, i, len, delta) ==
    IF i > Len(tracks) THEN 0
    ELSE (IF WithinDelta(getTrackLen(h, tracks[i]), len, delta) THEN 1 ELSE 0)
         + CountTracks(h, tracks, i + 1, len, delta)

numTracksWithLength(h, d, len, delta) ==
    IF d = NULL \/ len < 0 \/ delta < 0 THEN 0
    ELSE CountTracks(h, h[d].tracks, 1, len, delta)

(***************************************************************************)
(* isLoopRoute and isLoopTrack.                                            *)
(***************************************************************************)
NoEnds ==
    [numWaypoints |-> 0, firstLat |-> 0, firstLon |-> 0,
     lastLat |-> 0, lastLon |-> 0]

\* IsLoop with > for >= in the test against MIN_LOOP_WPTS
IsLoopAboveMinimum(c, delta) ==
    /\ c.numWaypoints > MIN_LOOP_WPTS
    /\ computeDistanceBetweenWaypoints(c.firstLat, c.firstLon,
                                       c.lastLat, c.lastLon) <= delta

\* lines 2156-2166: the test made with the locals c
IsLoop(c, delta) ==
    /\ c.numWaypoints >= MIN_LOOP_WPTS
    /\ computeDistanceBetweenWaypoints(c.firstLat, c.firstLon,
                                       c.lastLat, c.lastLon) <= delta

isLoopRoute(h, rt, delta) ==
    IF rt = NULL \/ delta < 0 THEN FALSE
    ELSE IsLoop(ScanEnds(h, h[rt].waypoints, 1, NoEnds), delta)

RECURSIVE ScanSegments(_, _, _, _)
ScanSegments(h, segs, j, c) ==
    IF j > Len(segs) THEN c
    ELSE ScanSegments(h, segs, j + 1, ScanEnds(h, h[segs[j]].waypoints, 1, c))

isLoopTrack(h, tr, delta) ==
    IF tr = NULL \/ delta < 0 THEN FALSE
    ELSE IsLoop(ScanSegments(h, h[tr].segments, 1, NoEnds), delta)

(***************************************************************************)
(* Documents for the queries: the waypoints lie on four points of the      *)
(* grid, 1.5 degrees apart.                                                *)
(***************************************************************************)
PA == <<0, 0>>
PB == <<0, 1500000>>
PC == <<1500000, 1500000>>
PD == <<1500000, 0>>

NamedPoint(name, p) ==
    [name |-> name, latitude |-> p[1], longitude |-> p[2], otherData |-> <<>>]

\* the unnamed waypoints at the points ps
Path(ps) == [i \in 1..Len(ps) |-> NamedPoint("", ps[i])]

\* no point, one, two, three that close, four that close, four and five that
\* do not, five that close
Shapes ==
    { <<>>, <<PA>>, <<PA, PB>>, <<PB, PA>>, <<PA, PB, PA>>, <<PA, PB, PC, PA>>,
      <<PA, PB, PC, PB>>, <<PA, PB, PC, PD>>, <<PA, PB, PC, PD, PA>>,
      <<PB, PC, PD, PA, PC>> }

\* the points of a shape in one segment, and shapes cut into segments
Segmentations ==
    { <<>>, <<<<>>>> } \cup { <<s>> : s \in Shapes }
    \cup { <<<<PA, PB>>, <<PC, PA>>>>, <<<<PA>>, <<PB>>, <<PC>>, <<PB>>>>,
           <<<<>>, <<PA, PB>>>>, <<<<PA, PB>>, <<>>, <<PC, PD>>>>,
           <<<<>>, <<PB>>>>, <<<<>>, <<PB, PC>>>>,
           <<<<PA, PB, PC>>, <<PD, PA>>>> }

NamedRoute(name, ps) == [name |-> name, waypoints |-> Path(ps), otherData |-> <<>>]

NamedTrack(name, segs) ==
    [name |-> name, segments |-> [j \in 1..Len(segs) |-> Path(segs[j])],
     otherData |-> <<>>]

RouteLists ==
    { <<>> } \cup { <<NamedRoute("r", s)>> : s \in Shapes }
    \cup { <<NamedRoute("r", s), NamedRoute("", t)>> :
             s \in Shapes, t \in { <<PA, PB>>, <<PB, PC, PD, PA, PC>> } }

TrackLists ==
    { <<>> } \cup { <<NamedTrack("t", g)>> : g \in Segmentations }
    \cup { <<NamedTrack("", g), NamedTrack("t", <<s>>)>> :
             g \in Segmentations, s \in { <<PA, PB>>, <<PA, PB, PC, PA>> } }
    \cup { <<NamedTrack("a long name", <<s>>), NamedTrack("a longer name", <<s>>)>> :
             s \in { <<>>, <<PA, PB>> } }

\* waypoints with names, some names at more than one place
PointsNamed(names, ps) == [i \in 1..Len(names) |-> NamedPoint(names[i], ps[i])]

RouteWith(wpts) == [name |-> "r", waypoints |-> wpts, otherData |-> <<>>]

TrackWith(segs) == [name |-> "t", segments |-> segs, otherData |-> <<>>]

NamedDocuments ==
    { FullDocument(ws, rs, ts) :
        ws \in { <<>>, PointsNamed(<<"b">>, <<PA>>),
                 PointsNamed(<<"b", "a", "a">>, <<PA, PB, PC>>) },
        rs \in { <<>>, <<RouteWith(PointsNamed(<<"c", "a">>, <<PB, PD>>))>>,
                 <<RouteWith(<<>>), RouteWith(PointsNamed(<<"A">>, <<PC>>)),
                   RouteWith(PointsNamed(<<"c", "a">>, <<PA, PB>>))>>,
                 <<RouteWith(PointsNamed(<<"d">>, <<PD>>))>> },
        ts \in { <<>>,
                 <<TrackWith(<<PointsNamed(<<"c">>, <<PC>>),
                               PointsNamed(<<"ab", "a">>, <<PA, PD>>)>>)>>,
                 <<TrackWith(<<<<>>, PointsNamed(<<"d">>, <<PB>>)>>),
                   TrackWith(<<PointsNamed(<<"c", "a">>, <<PD, PC>>)>>)>> } }

QueryDocuments ==
    { FullDocument(<<>>, rs, <<>>) : rs \in RouteLists }
    \cup { FullDocument(Path(<<PA>>), <<NamedRoute("r", <<PA, PB, PC, PA>>)>>, ts) :
             ts \in TrackLists }
    \cup NamedDocuments

\* a program that holds one assembled document
InitQueries ==
    /\ \E v \in QueryDocuments :
          LET l == Load(EmptyHeap, v, "GPXdoc")
          IN  heap = l.heap /\ doc = l.ptr
    /\ parseFail = FALSE
    /\ view = NULL
    /\ crashed = FALSE
    /\ tree = [root |-> NoTree, origin |-> NoTree]
    /\ xdoc = NoTree
    /\ ret = Call("none", NULL, NULL)
    /\ failures = 0

TracksBetween ==
    /\ ~crashed
    /\ doc # NULL
    /\ view = NULL
    /\ Cardinality(Lists(heap)) < MaxLists
    /\ \E q \in Queries :
          LET r == getTracksBetween(heap, doc, q)
          IN  /\ heap' = r.heap
              /\ view' = r.ptr
              /\ ret' = Call("getTracksBetween", r.ptr, q)
    /\ UNCHANGED <<parseFail, doc, crashed, tree, xdoc, failures>>

\* a program that asks for views of its document, frees them and deletes the
\* document
NextViews ==
    \/ RoutesBetween
    \/ TracksBetween
    \/ FreeView
    \/ DeleteGPXdoc

SpecViews == InitQueries /\ [][NextViews]_vars

\* the elements of the list field of the object at a, none when a is freed
ElementsOf(h, a, field) ==
    IF a \in DOMAIN h THEN { h[a][field][i] : i \in 1..Len(h[a][field]) } ELSE {}

\* the Routes and Tracks of the Document d and all that they own
OwnedByRoutesAndTracks(h, d) ==
    LET routes == ElementsOf(h, d, "routes")
        tracks == ElementsOf(h, d, "tracks")
        segs   == UNION { ElementsOf(h, t, "segments") : t \in tracks }
        wpts   == UNION { ElementsOf(h, o, "waypoints") : o \in routes \cup segs }
    IN  routes \cup tracks \cup segs \cup wpts
        \cup UNION { ElementsOf(h, o, "otherData") : o \in routes \cup tracks \cup wpts }

\* C11: freeing the view that getRoutesBetween or getTracksBetween returned
\* destroys none of its elements: after freeList every Route and Track of the
\* Document, with all it owns, is still in memory and the Document has the
\* value it had; deleteGPXdoc then frees each of them, and frees nothing twice.
C11_ViewIsNotOwner ==
    [][/\ (ret'.op = "freeList" /\ doc # NULL) =>
              /\ ~crashed'
              /\ OwnedByRoutesAndTracks(heap, doc) \subseteq DOMAIN heap'
              /\ DocumentValue(heap', doc) = DocumentValue(heap, doc)
       /\ (ret'.op = "deleteGPXdoc") =>
              /\ ~crashed'
              /\ OwnedByRoutesAndTracks(heap, doc) \cap DOMAIN heap' = {}
              /\ doc \notin DOMAIN heap']_vars

\* a view that held two elements has been freed and they are alive
C11_Witness ==
    /\ ret.op = "freeList"
    /\ doc # NULL
    /\ Len(ret.val) = 2
    /\ \A i \in 1..2 : ret.val[i] \in DOMAIN heap /\ heap[ret.val[i]].kind = "Track"

(***************************************************************************)
(* round10 on its own: a program that rounds one length of whole metres.   *)
(***************************************************************************)
InitRound ==
    /\ heap = EmptyHeap
    /\ parseFail = FALSE
    /\ doc = NULL
    /\ view = NULL
    /\ crashed = FALSE
    /\ tree = [root |-> NoTree, origin |-> NoTree]
    /\ xdoc = NoTree
    /\ \E len \in 0..MaxLength : ret = Call("none", NULL, len)
    /\ failures = 0

Round10 ==
    /\ ret.op = "none"
    /\ ret' = Call("round10", round10(ret.arg), ret.arg)
    /\ UNCHANGED <<heap, parseFail, doc, view, crashed, tree, xdoc, failures>>

NextRound == Round10

SpecRound == InitRound /\ [][NextRound]_vars

\* C12 as stated: the rounded length is the smallest multiple of 10 that is
\* greater than or equal to the length
C12_RoundsUp ==
    ret.op = "round10" =>
        /\ ret.val % 10 = 0
        /\ ret.val >= ret.arg
        /\ ret.val - ret.arg < 10

\* C12: the rounded length of a length of L whole metres, L >= 0, is the
\* multiple of 10 nearest to L, the greater one when L lies midway between two
C12_RoundsToNearest ==
    ret.op = "round10" =>
        /\ ret.val % 10 = 0
        /\ ret.val - ret.arg <= 5
        /\ ret.arg - ret.val < 5

\* a length midway between two multiples of 10 has been rounded
C12_Witness == ret.op = "round10" /\ ret.arg % 10 = 5 /\ ret.arg > 100

(***************************************************************************)
(* The text projections.  A text is a string; a function whose code has    *)
(* undefined behaviour gives the set of its outcomes [text, crashed].      *)
(***************************************************************************)
DEFAULT_DELTA == 10

\* the value of the character ',' that line 2413 adds to a pointer
COMMA == 44

RECURSIVE Str(_)
Str(chars) == IF chars = <<>> THEN "" ELSE Head(chars) \o Str(Tail(chars))

Outcome(text) == [text |-> text, crashed |-> FALSE]

Crash == [text |-> "", crashed |-> TRUE]

\* malloc(strlen(tempStr + 1)) is a block of one byte for "[]" and for "{}",
\* and strcpy writes three bytes to it: the text is returned or the process
\* stops
CopiedToOneByte(text) == { Outcome(text), Crash }

NameOrNone(name) == IF name = "" THEN "None" ELSE name

BoolText(b) == IF b THEN "true" ELSE "false"

\* sprintf("%.1f") of a rounded length, a whole number of metres
LenText(len) == Str(IntToChars(len)) \o ".0"

getNumRouteWaypoints(h, rt) == IF rt = NULL THEN 0 ELSE Len(h[rt].waypoints)

\* the text for a Track that is not NULL
trackToJSON(h, tr) ==
    "{\"name\":\"" \o NameOrNone(h[tr].name)
    \o "\",\"len\":" \o LenText(round10(getTrackLen(h, tr)))
    \o ",\"loop\":" \o BoolText(isLoopTrack(h, tr, DEFAULT_DELTA)) \o "}"

\* the text for a Route that is not NULL
routeToJSON(h, rt) ==
    "{\"name\":\"" \o NameOrNone(h[rt].name)
    \o "\",\"numPoints\":" \o Str(IntToChars(getNumRouteWaypoints(h, rt)))
    \o ",\"len\":" \o LenText(round10(getRouteLen(h, rt)))
    \o ",\"loop\":" \o BoolText(isLoopRoute(h, rt, DEFAULT_DELTA)) \o "}"

\* the text for a Waypoint that is not NULL
waypointToJSON(h, wpt) ==
    "{\"name\":\"" \o NameOrNone(h[wpt].name)
    \o "\",\"latitude\":" \o Str(FormatF(h[wpt].latitude))
    \o ",\"longitude\":" \o Str(FormatF(h[wpt].longitude)) \o "}"

getNumWaypoints(h, d) == IF d = NULL THEN 0 ELSE Len(h[d].waypoints)

getNumRoutes(h, d) == IF d = NULL THEN 0 ELSE Len(h[d].routes)

getNumTracks(h, d) == IF d = NULL THEN 0 ELSE Len(h[d].tracks)

\* the outcomes of GPXtoJSON; creator is kept as a sequence of characters
GPXtoJSON(h, gpx) ==
    IF gpx = NULL THEN CopiedToOneByte("{}")
    ELSE { Outcome("{\"version\":" \o Str(FormatF1(h[gpx].version))
                   \o ",\"creator\":\"" \o Str(h[gpx].creator)
                   \o "\",\"numWaypoints\":" \o Str(IntToChars(getNumWaypoints(h, gpx)))
                   \o ",\"numRoutes\":" \o Str(IntToChars(getNumRoutes(h, gpx)))
                   \o ",\"numTracks\":" \o Str(IntToChars(getNumTracks(h, gpx)))
                   \o "}") }

\* a List * argument: NULL, or a List with its elements
NullList == [kind |-> "NULL", data |-> <<>>]

ListOf(data) == [kind |-> "List", data |-> data]

\* lines 2365-2383: the loop over the routes from route i on, str the text
\* so far
RECURSIVE RouteTexts(_, _, _, _)
RouteTexts(h, data, i, str) ==
    IF i > Len(data) THEN str
    ELSE RouteTexts(h, data, i + 1,
             IF Len(data) > i THEN str \o routeToJSON(h, data[i]) \o ","
             ELSE str \o routeToJSON(h, data[i]))

routeListToJSON(h, list) ==
    IF list.kind = "NULL" \/ Len(list.data) = 0 THEN CopiedToOneByte("[]")
    ELSE { Outcome(RouteTexts(h, list.data, 1, "[") \o "]") }

\* the bytes that may lie COMMA bytes after the start of a shorter text
Garbage == { "", "?" }

\* trackToJSON(track) + ',': the text from its byte COMMA on
FromComma(text, garbage) ==
    IF Len(text) >= COMMA THEN SubSeq(text, COMMA + 1, Len(text)) ELSE garbage

\* lines 2410-2414: the loop over the tracks from track i on
RECURSIVE TrackTexts(_, _, _, _, _)
TrackTexts(h, data, i, str, garbage) ==
    IF i > Len(data) THEN str
    ELSE TrackTexts(h, data, i + 1,
                    str \o FromComma(trackToJSON(h, data[i]), garbage), garbage)

\* a text shorter than COMMA bytes is read beyond its block
trackListToJSON(h, list) ==
    IF list.kind = "NULL" \/ Len(list.data) = 0 THEN CopiedToOneByte("[]")
    ELSE IF \E i \in 1..Len(list.data) : Len(trackToJSON(h, list.data[i])) < COMMA
    THEN { Outcome(TrackTexts(h, list.data, 1, "[", g) \o "]") : g \in Garbage }
         \cup { Crash }
    ELSE { Outcome(TrackTexts(h, list.data, 1, "[", "") \o "]") }

RECURSIVE PointTexts(_, _, _, _)
PointTexts(h, data, i, str) ==
    IF i > Len(data) THEN str
    ELSE PointTexts(h, data, i + 1,
             IF Len(data) > i THEN str \o waypointToJSON(h, data[i]) \o ","
             ELSE str \o waypointToJSON(h, data[i]))

getJSONRoutePointList(h, list) ==
    IF list.kind = "NULL" \/ Len(list.data) = 0 THEN CopiedToOneByte("[]")
    ELSE { Outcome(PointTexts(h, list.data, 1, "[") \o "]") }

(***************************************************************************)
(* getWaypoint.  The name given is never NULL in the model.                *)
(***************************************************************************)
\* strcmp(waypoint->name, name) == EQUAL_STRINGS over the waypoints of one
\* list, from waypoint i on
RECURSIVE FindNamed(_, _, _, _)
FindNamed(h, wpts, i, name) ==
    IF i > Len(wpts) THEN NULL
    ELSE IF h[wpts[i]].name = name THEN wpts[i]
    ELSE FindNamed(h, wpts, i + 1, name)

\* found, when the inner loop returned a waypoint, else what the later rounds
\* of the outer loop return
FoundOr(found, later) == IF found # NULL THEN found ELSE later

RECURSIVE FindInRoutes(_, _, _, _)
FindInRoutes(h, routes, i, name) ==
    IF i > Len(routes) THEN NULL
    ELSE FoundOr(FindNamed(h, h[routes[i]].waypoints, 1, name),
                 FindInRoutes(h, routes, i + 1, name))

RECURSIVE FindInSegments(_, _, _, _)
FindInSegments(h, segs, j, name) ==
    IF j > Len(segs) THEN NULL
    ELSE FoundOr(FindNamed(h, h[segs[j]].waypoints, 1, name),
                 FindInSegments(h, segs, j + 1, name))

RECURSIVE FindInTracks(_, _, _, _)
FindInTracks(h, tracks, i, name) ==
    IF i > Len(tracks) THEN NULL
    ELSE FoundOr(FindInSegments(h, h[tracks[i]].segments, 1, name),
                 FindInTracks(h, tracks, i + 1, name))

\* getWaypoint with the tracks searched before the routes
getWaypointTracksFirst(h, d, name) ==
    IF d = NULL THEN NULL
    ELSE FoundOr(FindNamed(h, h[d].waypoints, 1, name),
                 FoundOr(FindInTracks(h, h[d].tracks, 1, name),
                         FindInRoutes(h, h[d].routes, 1, name)))

getWaypoint(h, d, name) ==
    IF d = NULL THEN NULL
    ELSE FoundOr(FindNamed(h, h[d].waypoints, 1, name),
                 FoundOr(FindInRoutes(h, h[d].routes, 1, name),
                         FindInTracks(h, h[d].tracks, 1, name)))

(***************************************************************************)
(* A program that holds one assembled document and queries it.             *)
(***************************************************************************)
\* the call op(arg) returns val and writes nothing
Answer(op, val, arg) ==
    /\ ret' = Call(op, val, arg)
    /\ UNCHANGED <<heap, parseFail, doc, view, crashed, tree, xdoc, failures>>

\* the call op(arg) has the outcome o
Ends(op, o, arg) ==
    /\ ret' = Call(op, o.text, arg)
    /\ crashed' = o.crashed
    /\ UNCHANGED <<heap, parseFail, doc, view, tree, xdoc, failures>>

Routes == ElementsOf(heap, doc, "routes")

Tracks == ElementsOf(heap, doc, "tracks")

\* delta: negative, none, the default, a metre less than the distance from PA
\* to PB, that distance
Deltas == { -1, 0, 10, 166791, 166792 }

\* len: negative, none, 10 metres either side of the distance from PA to PB
Lengths == { -1, 0, 166782, 166802 }

Names == { "a", "b", "c", "d", "A", "ab", "", "zz" }

GetRouteLen ==
    /\ ~crashed
    /\ \E rt \in Routes \cup {NULL} :
          Answer("getRouteLen", getRouteLen(heap, rt), rt)

GetTrackLen ==
    /\ ~crashed
    /\ \E tr \in Tracks \cup {NULL} :
          Answer("getTrackLen", getTrackLen(heap, tr), tr)

IsLoopRoute ==
    /\ ~crashed
    /\ \E rt \in Routes \cup {NULL}, delta \in Deltas :
          Answer("isLoopRoute", isLoopRoute(heap, rt, delta),
                 [ptr |-> rt, delta |-> delta])

IsLoopTrack ==
    /\ ~crashed
    /\ \E tr \in Tracks \cup {NULL}, delta \in Deltas :
          Answer("isLoopTrack", isLoopTrack(heap, tr, delta),
                 [ptr |-> tr, delta |-> delta])

NumRoutesWithLength ==
    /\ ~crashed
    /\ \E d \in {doc, NULL}, len \in Lengths, delta \in Deltas :
          Answer("numRoutesWithLength", numRoutesWithLength(heap, d, len, delta),
                 [doc |-> d, len |-> len, delta |-> delta])

NumTracksWithLength ==
    /\ ~crashed
    /\ \E d \in {doc, NULL}, len \in Lengths, delta \in Deltas :
          Answer("numTracksWithLength", numTracksWithLength(heap, d, len, delta),
                 [doc |-> d, len |-> len, delta |-> delta])

GetWaypoint ==
    /\ ~crashed
    /\ \E d \in {doc, NULL}, name \in Names :
          Answer("getWaypoint", getWaypoint(heap, d, name),
                 [doc |-> d, name |-> name])

RouteListToJSON ==
    /\ ~crashed
    /\ \E list \in {NullList, ListOf(heap[doc].routes)} :
          \E o \in routeListToJSON(heap, list) : Ends("routeListToJSON", o, list)

TrackListToJSON ==
    /\ ~crashed
    /\ \E list \in {NullList, ListOf(heap[doc].tracks)} :
          \E o \in trackListToJSON(heap, list) : Ends("trackListToJSON", o, list)

GetJSONRoutePointList ==
    /\ ~crashed
    /\ \E list \in {NullList} \cup { ListOf(heap[rt].waypoints) : rt \in Routes } :
          \E o \in getJSONRoutePointList(heap, list) :
             Ends("getJSONRoutePointList", o, list)

NextQueries ==
    \/ GetRouteLen
    \/ GetTrackLen
    \/ IsLoopRoute
    \/ IsLoopTrack
    \/ NumRoutesWithLength
    \/ NumTracksWithLength
    \/ GetWaypoint
    \/ RouteListToJSON
    \/ TrackListToJSON
    \/ GetJSONRoutePointList

SpecQueries == InitQueries /\ [][NextQueries]_vars

(***************************************************************************)
(* The queries as the specification states them.                           *)
(***************************************************************************)
ListJSONOps == { "routeListToJSON", "trackListToJSON", "getJSONRoutePointList" }

\* the text of one element of the list that op projects
ObjectText(op, h, a) ==
    IF op = "routeListToJSON" THEN routeToJSON(h, a)
    ELSE IF op = "trackListToJSON" THEN trackToJSON(h, a)
    ELSE waypointToJSON(h, a)

\* the texts joined by commas
RECURSIVE Joined(_)
Joined(texts) ==
    IF Len(texts) = 1 THEN texts[1]
    ELSE texts[1] \o "," \o Joined(Tail(texts))

\* C13: the text of a list of routes, tracks or waypoints is "[]" for an empty
\* or absent list, else "[", one object per element in container order with a
\* comma between two of them and none after the last, and "]".
C13_ListText ==
    ret.op \in ListJSONOps =>
        /\ ~crashed
        /\ ret.val = IF ret.arg.kind = "NULL" \/ ret.arg.data = <<>> THEN "[]"
                     ELSE "[" \o Joined([i \in 1..Len(ret.arg.data) |->
                                            ObjectText(ret.op, heap, ret.arg.data[i])])
                          \o "]"

\* the waypoints of the Document d in the order of the search: its own, then
\* those of each route, then those of each segment of each track
RECURSIVE Flattened(_)
Flattened(seqs) == IF seqs = <<>> THEN <<>> ELSE Head(seqs) \o Flattened(Tail(seqs))

SearchOrder(h, d) ==
    h[d].waypoints
    \o Flattened([i \in 1..Len(h[d].routes) |-> h[h[d].routes[i]].waypoints])
    \o Flattened([i \in 1..Len(h[d].tracks) |->
          Flattened([j \in 1..Len(h[h[d].tracks[i]].segments) |->
                        h[h[h[d].tracks[i]].segments[j]].waypoints])])

Matches(h, order, name) == { i \in 1..Len(order) : h[order[i]].name = name }

\* C14: getWaypoint returns the first Waypoint, in the order Document
\* waypoints, routes' waypoints, tracks' segments' waypoints, whose name is
\* the name asked for, NULL when there is none, and changes nothing.
C14_FirstByName ==
    [][(ret'.op = "getWaypoint" /\ ret'.arg.doc # NULL) =>
          /\ heap' = heap /\ doc' = doc
          /\ LET order == SearchOrder(heap, doc)
                 found == Matches(heap, order, ret'.arg.name)
             IN  IF found = {} THEN ret'.val = NULL
                 ELSE /\ ret'.val # NULL
                      /\ \E i \in found : /\ ret'.val = order[i]
                                          /\ \A j \in found : i <= j]_vars

\* a name borne by a route waypoint and by a track waypoint, and by no
\* waypoint of the Document itself, has been looked up
C14_Witness ==
    /\ ret.op = "getWaypoint"
    /\ ret.arg.doc # NULL
    /\ ret.val # NULL
    /\ Cardinality(Matches(heap, SearchOrder(heap, doc), ret.arg.name)) >= 2
    /\ \A i \in 1..Len(heap[doc].waypoints) :
          heap[heap[doc].waypoints[i]].name # ret.arg.name
    /\ \E i \in 1..Len(heap[doc].routes) : ret.val \in
          { heap[heap[doc].routes[i]].waypoints[k] :
              k \in 1..Len(heap[heap[doc].routes[i]].waypoints) }

\* the waypoints of the route or track at a, in order
PointsOf(h, a) ==
    IF h[a].kind = "Route" THEN h[a].waypoints
    ELSE Flattened([j \in 1..Len(h[a].segments) |-> h[h[a].segments[j]].waypoints])

Distance(h, p, q) ==
    computeDistanceBetweenWaypoints(h[p].latitude, h[p].longitude,
                                    h[q].latitude, h[q].longitude)

\* C15: isLoopRoute and isLoopTrack return true exactly when there are at
\* least 4 waypoints and the first and the last are at most delta apart; so
\* never for 3 waypoints or fewer, and for every delta >= 0 when there are 4
\* and the first and the last have the same coordinates.
C15_LoopIffFourAndClose ==
    (ret.op \in {"isLoopRoute", "isLoopTrack"} /\ ret.arg.ptr # NULL) =>
        LET pts == PointsOf(heap, ret.arg.ptr)
            n   == Len(pts)
        IN  /\ ret.val = (n >= 4 /\ Distance(heap, pts[1], pts[n]) <= ret.arg.delta)
            /\ n <= 3 => ret.val = FALSE
            /\ (/\ n = 4 /\ ret.arg.delta >= 0
                /\ heap[pts[1]].latitude = heap[pts[4]].latitude
                /\ heap[pts[1]].longitude = heap[pts[4]].longitude) => ret.val = TRUE

\* a track of 4 waypoints in several segments, the first and the last at the
\* same place, has been found a loop with delta 0
C15_Witness ==
    /\ ret.op = "isLoopTrack"
    /\ ret.arg.ptr # NULL
    /\ ret.arg.delta = 0
    /\ ret.val = TRUE
    /\ Len(heap[ret.arg.ptr].segments) = 2
    /\ Len(PointsOf(heap, ret.arg.ptr)) = 4

\* the sum of the distances between the waypoints i and i + 1 of pts, i < n
RECURSIVE SumOfLegs(_, _, _)
SumOfLegs(h, pts, n) ==
    IF n <= 1 THEN 0
    ELSE SumOfLegs(h, pts, n - 1) + Distance(h, pts[n - 1], pts[n])

\* C16: getRouteLen is the sum of the distances between consecutive
\* waypoints, in container order; 0 for no waypoint, for one and for a NULL
\* route.
C16_RouteLenIsSumOfLegs ==
    ret.op = "getRouteLen" =>
        IF ret.arg = NULL THEN ret.val = 0
        ELSE /\ ret.val = SumOfLegs(heap, heap[ret.arg].waypoints,
                                    Len(heap[ret.arg].waypoints))
             /\ Len(heap[ret.arg].waypoints) <= 1 => ret.val = 0

\* the length of a route of 5 waypoints that does not start at latitude 0,
\* longitude 0 has been computed
C16_Witness ==
    /\ ret.op = "getRouteLen"
    /\ ret.arg # NULL
    /\ Len(heap[ret.arg].waypoints) = 5
    /\ heap[heap[ret.arg].waypoints[1]].longitude # 0
    /\ ret.val > 0

AbsoluteDifference(a, b) == IF a >= b THEN a - b ELSE b - a

\* C18: numRoutesWithLength (numTracksWithLength) is the number of routes
\* (tracks) of the Document whose length, as getRouteLen (getTrackLen)
\* computes it, is at most delta away from len; 0 when len < 0, delta < 0 or
\* the Document is NULL.
C18_CountWithinDelta ==
    ret.op \in {"numRoutesWithLength", "numTracksWithLength"} =>
        IF ret.arg.doc = NULL \/ ret.arg.len < 0 \/ ret.arg.delta < 0
        THEN ret.val = 0
        ELSE ret.val =
             IF ret.op = "numRoutesWithLength"
             THEN Cardinality({ i \in 1..Len(heap[doc].routes) :
                     AbsoluteDifference(getRouteLen(heap, heap[doc].routes[i]),
                                        ret.arg.len) <= ret.arg.delta })
             ELSE Cardinality({ i \in 1..Len(heap[doc].tracks) :
                     AbsoluteDifference(getTrackLen(heap, heap[doc].tracks[i]),
                                        ret.arg.len) <= ret.arg.delta })

\* of two routes, one 10 metres shorter than len has been counted with delta
\* 10 and the other has not
C18_Witness ==
    /\ ret.op = "numRoutesWithLength"
    /\ ret.arg.doc # NULL
    /\ ret.arg.len = 166802
    /\ ret.arg.delta = 10
    /\ Len(heap[doc].routes) = 2
    /\ ret.val = 1

(***************************************************************************)
(* addWaypoint and addRoute, and a program that builds Waypoints and       *)
(* Routes and adds them to its document.                                   *)
(***************************************************************************)
\* addWaypoint that leaves out a Waypoint validateWaypoint rejects
addWaypointIfValid(h, rt, pt) ==
    IF rt = NULL \/ pt = NULL THEN h
    ELSE IF ~validateWaypoint(h, pt) THEN h
    ELSE insertBack(h, rt, "waypoints", pt)

addWaypoint(h, rt, pt) ==
    IF rt = NULL \/ pt = NULL THEN h
    ELSE insertBack(h, rt, "waypoints", pt)

addRoute(h, d, rt) ==
    IF d = NULL \/ rt = NULL THEN h
    ELSE insertBack(h, d, "routes", rt)

\* a Waypoint at the sentinel latitude, which validateWaypoint rejects
PSentinel == <<SENTINEL_LAT_LON, 0>>

BuiltWaypoints == { NamedPoint("", PA), NamedPoint("b", PB), NamedPoint("", PSentinel) }

\* the second has an ExtensionField with no name, which validateRoute rejects
BuiltRoutes ==
    { [name |-> "new", waypoints |-> <<>>, otherData |-> <<>>],
      [name |-> "", waypoints |-> <<NamedPoint("", PB)>>,
       otherData |-> <<[name |-> "", value |-> "1"]>>] }

AppendDocuments ==
    { FullDocument(ws, rs, ts) :
        ws \in { <<>> },
        rs \in { <<>>, <<NamedRoute("r", <<>>)>>, <<NamedRoute("r", <<PB, PA>>)>> },
        ts \in { <<>>, <<NamedTrack("t", <<<<>>>>)>> } }

InitAppend ==
    /\ \E v \in AppendDocuments :
          LET l == Load(EmptyHeap, v, "GPXdoc")
          IN  heap = l.heap /\ doc = l.ptr
    /\ parseFail = FALSE
    /\ view = NULL
    /\ crashed = FALSE
    /\ tree = [root |-> NoTree, origin |-> NoTree]
    /\ xdoc = NoTree
    /\ ret = Call("none", NULL, NULL)
    /\ failures = 0

OfKind(h, kind) == { a \in DOMAIN h : h[a].kind = kind }

\* the Waypoints and Routes that no list holds: the caller has the pointer
Held(h) ==
    UNION { ElementsOf(h, a, "waypoints") : a \in OfKind(h, "Route") }
    \cup UNION { ElementsOf(h, a, "waypoints") : a \in OfKind(h, "TrackSegment") }
    \cup UNION { ElementsOf(h, a, "waypoints") \cup ElementsOf(h, a, "routes") :
                   a \in OfKind(h, "GPXdoc") }

Unheld(h, kind) == OfKind(h, kind) \ Held(h)

Returns(op, l) ==
    /\ heap' = l.heap
    /\ ret' = Call(op, l.ptr, NULL)
    /\ UNCHANGED <<parseFail, doc, view, crashed, tree, xdoc, failures>>

\* the caller adds what it built before it builds again
NothingUnheld == Unheld(heap, "Waypoint") \cup Unheld(heap, "Route") = {}

BuildWaypoint ==
    /\ NothingUnheld
    /\ Cardinality(OfKind(heap, "Waypoint")) < MaxWaypointObjects
    /\ \E v \in BuiltWaypoints : Returns("buildWaypoint", Load(heap, v, "Waypoint"))

BuildRoute ==
    /\ NothingUnheld
    /\ Cardinality(OfKind(heap, "Waypoint")) < MaxWaypointObjects
    /\ Cardinality(OfKind(heap, "Route")) < MaxRouteObjects
    /\ \E v \in BuiltRoutes : Returns("buildRoute", Load(heap, v, "Route"))

AddWaypoint ==
    \E rt \in OfKind(heap, "Route") \cup {NULL},
       pt \in Unheld(heap, "Waypoint") \cup {NULL} :
        /\ heap' = addWaypoint(heap, rt, pt)
        /\ ret' = Call("addWaypoint", NULL, [to |-> rt, element |-> pt])
        /\ UNCHANGED <<parseFail, doc, view, crashed, tree, xdoc, failures>>

AddRoute ==
    \E d \in {doc, NULL}, rt \in Unheld(heap, "Route") \cup {NULL} :
        /\ heap' = addRoute(heap, d, rt)
        /\ ret' = Call("addRoute", NULL, [to |-> d, element |-> rt])
        /\ UNCHANGED <<parseFail, doc, view, crashed, tree, xdoc, failures>>

NextAppend ==
    \/ BuildWaypoint
    \/ BuildRoute
    \/ AddWaypoint
    \/ AddRoute

SpecAppend == InitAppend /\ [][NextAppend]_vars

\* C17: after every addWaypoint on a Route the length of the Route, as
\* getRouteLen computes it, is at least 0 and at least what it was before the
\* call.
C17_LengthNeverDecreases ==
    [][(ret'.op = "addWaypoint" /\ ret'.arg.to # NULL) =>
          /\ getRouteLen(heap', ret'.arg.to) >= 0
          /\ getRouteLen(heap', ret'.arg.to) >= getRouteLen(heap, ret'.arg.to)]_vars

\* a third waypoint has been added to a Route, at the place of its first
C17_Witness ==
    /\ ret.op = "addWaypoint"
    /\ ret.arg.to # NULL
    /\ ret.arg.element # NULL
    /\ Len(heap[ret.arg.to].waypoints) = 3
    /\ Distance(heap, heap[ret.arg.to].waypoints[1], ret.arg.element) = 0
    /\ getRouteLen(heap, ret.arg.to) > 0

\* the memory h2 after element was added to the list field of the object at
\* to, the memory being h before: nothing differs for a NULL argument, else
\* only that list, which is the one before with element after its last
OnlyAppended(h, h2, to, field, element) ==
    IF to = NULL \/ element = NULL THEN h2 = h
    ELSE /\ DOMAIN h2 = DOMAIN h
         /\ \A a \in DOMAIN h \ {to} : h2[a] = h[a]
         /\ h2[to][field] = Append(h[to][field], element)
         /\ [h2[to] EXCEPT ![field] = h[to][field]] = h[to]

\* C20: addWaypoint and addRoute put the element last in the list they are
\* given and change nothing else, whether or not the validator accepts the
\* element; with a NULL argument they change nothing.
C20_AddOnlyAppends ==
    [][/\ ret'.op = "addWaypoint" =>
             OnlyAppended(heap, heap', ret'.arg.to, "waypoints", ret'.arg.element)
       /\ ret'.op = "addRoute" =>
             OnlyAppended(heap, heap', ret'.arg.to, "routes", ret'.arg.element)]_vars

\* a Waypoint that validateWaypoint rejects has been added to a Route that
\* had waypoints
C20_Witness ==
    /\ ret.op = "addWaypoint"
    /\ ret.arg.to # NULL
    /\ ret.arg.element # NULL
    /\ ~validateWaypoint(heap, ret.arg.element)
    /\ Len(heap[ret.arg.to].waypoints) >= 2
    /\ heap[ret.arg.to].waypoints[Len(heap[ret.arg.to].waypoints)] = ret.arg.element

(***************************************************************************)
(* A program that builds documents from files and asks for their counts    *)
(* and their summary.                                                      *)
(***************************************************************************)
\* GPXtoJSON(doc), with getNumWaypoints(doc), getNumRoutes(doc) and
\* getNumTracks(doc) in arg
Summary ==
    /\ ~crashed
    /\ \E o \in GPXtoJSON(heap, doc) :
          /\ ret' = Call("GPXtoJSON", o.text,
                         <<getNumWaypoints(heap, doc), getNumRoutes(heap, doc),
                           getNumTracks(heap, doc)>>)
          /\ crashed' = o.crashed
    /\ UNCHANGED <<heap, parseFail, doc, view, tree, xdoc, failures>>

NextSummary ==
    \/ CreateFromFile
    \/ DeleteGPXdoc
    \/ Summary

SpecSummary == Init /\ [][NextSummary]_vars

\* the children of the root that are elements named tag
CountOf(root, tag) ==
    Cardinality({ i \in 1..Len(Kids(root)) : Kids(root)[i].name = tag })

EndsWith(text, end) ==
    /\ Len(text) >= Len(end)
    /\ SubSeq(text, Len(text) - Len(end) + 1, Len(text)) = end

CountsText(w, r, t) ==
    "\"numWaypoints\":" \o Str(IntToChars(w)) \o ",\"numRoutes\":"
    \o Str(IntToChars(r)) \o ",\"numTracks\":" \o Str(IntToChars(t)) \o "}"

\* C19: after Build of a well-formed tree with w wpt, r rte and t trk
\* elements under its root, getNumWaypoints is w, getNumRoutes is r and
\* getNumTracks is t for the Document returned, and the summary of that
\* Document ends with these three counts.
C19_CountsOfTree ==
    WellFormed(tree.root) =>
        /\ Built =>
              /\ ~crashed
              /\ getNumWaypoints(heap, ret.val) = CountOf(tree.root, WPT)
              /\ getNumRoutes(heap, ret.val) = CountOf(tree.root, RTE)
              /\ getNumTracks(heap, ret.val) = CountOf(tree.root, TRK)
        /\ (ret.op = "GPXtoJSON" /\ doc # NULL) =>
              /\ ret.arg = <<CountOf(tree.root, WPT), CountOf(tree.root, RTE),
                             CountOf(tree.root, TRK)>>
              /\ EndsWith(ret.val, CountsText(CountOf(tree.root, WPT),
                                              CountOf(tree.root, RTE),
                                              CountOf(tree.root, TRK)))

(***************************************************************************)
(* A program that builds a document from a file, builds Routes and         *)
(* Waypoints of its own, adds each to the document before it builds the    *)
(* next, and deletes the document.                                         *)
(***************************************************************************)
\* addRoute(doc, rt), rt the Route the last call built
AddBuiltRoute ==
    /\ ~crashed
    /\ doc # NULL
    /\ ret.op = "buildRoute"
    /\ AddRoute
    /\ ret'.arg = [to |-> doc, element |-> ret.val]

\* addWaypoint(rt, pt), rt a Route of the document and pt the Waypoint the
\* last call built
AddBuiltWaypoint ==
    /\ ~crashed
    /\ doc # NULL
    /\ ret.op = "buildWaypoint"
    /\ AddWaypoint
    /\ ret'.arg.element = ret.val
    /\ ret'.arg.to \in ElementsOf(heap, doc, "routes")

\* a trk or a rte that is closed before a trkseg, a trkpt or a rtept follows
\* it among the children of the root
OrphanTrees ==
    { Root(FullProps, <<Element(TRK, "", <<>>, Lay(before, TRUE)), after>>, TRUE) :
        before \in { <<Leaf(NAME, "T")>>,
                     <<Leaf(NAME, "T"),
                       Element(TRKSEG, "", <<>>, Lay(<<Point(TRKPT, P0, <<>>, TRUE)>>, TRUE))>> },
        after \in { Element(TRKSEG, "", <<>>, Lay(<<Point(TRKPT, P1, <<>>, TRUE)>>, TRUE)),
                    Point(TRKPT, P1, <<>>, TRUE) } }
    \cup
    { Root(FullProps, <<Element(RTE, "", <<>>,
                            Lay(<<Leaf(NAME, "R"), Point(RTEPT, P0, <<>>, TRUE)>>, TRUE)),
                        after>>, TRUE) :
        after \in { Point(RTEPT, P1, <<>>, TRUE), Point(WPT, P1, <<>>, TRUE) } }

\* an indented rte or trk whose name is not its first element
LateNameTrees ==
    { Root(FullProps, <<Element(tag, "", <<>>,
                            Lay(<<Leaf("desc", "d"), Leaf(NAME, "N")>>, TRUE))>>, TRUE) :
        tag \in {RTE, TRK} }

\* a wpt with both coordinates followed by a wpt that lacks one or both
SiblingTrees ==
    { Root(FullProps, <<Point(WPT, LatLon(T15, T15), <<>>, TRUE),
                        Point(WPT, pr, <<>>, TRUE)>>, TRUE) :
        pr \in { <<Attr(LON, T0)>>, <<Attr(LAT, T0)>>, <<>>, LatLon(T0, T0) } }

\* the files of the program: tracks, routes and waypoints together, points
\* with no enclosing element, names after other children, points with no
\* coordinates, and files whose Build fails
CreateForLifetime ==
    \E t \in TrackTrees \cup DeepTrees \cup OrphanTrees \cup LateNameTrees
                \cup SiblingTrees :
        Create(t, NoTree)

NextLifetime ==
    \/ CreateForLifetime
    \/ (~crashed /\ BuildRoute)
    \/ (~crashed /\ BuildWaypoint)
    \/ AddBuiltRoute
    \/ AddBuiltWaypoint
    \/ DeleteGPXdoc

SpecLifetime == Init /\ [][NextLifetime]_vars

\* every entity reachable from the Document at d, the Document included
Reachable(h, d) ==
    {d} \cup ElementsOf(h, d, "routes") \cup ElementsOf(h, d, "tracks")
        \cup UNION { ElementsOf(h, t, "segments") : t \in ElementsOf(h, d, "tracks") }
        \cup AllWaypoints(h, d) \cup AllExtensionFields(h, d)

Captured(node) ==
    LET skipped == IF node.name = TRK THEN {TEXT, TRKSEG, NAME}
                   ELSE IF node.name = RTE THEN {TEXT, RTEPT, NAME}
                   ELSE {TEXT, NAME}
    IN  SelectSeq([i \in 1..Len(node.children) |->
                      IF i >= 2 /\ node.children[i].name \notin skipped
                      THEN node.children[i] ELSE NoTree],
                  LAMBDA c : c # NoTree)

\* buildGPXData returns NULL for a child of node
FailsAt(node) ==
    /\ node.type = "element"
    /\ IsPoint(node.name) \/ node.name \in {TRK, RTE}
    /\ \E i \in 1..Len(Captured(node)) : xmlNodeGetContent(Captured(node)[i]) = ""

\* the point elements met in document order from nodes[i] on, up to and
\* including the first element at which buildGPXData returns NULL;
\* s = [points, failed]
RECURSIVE UntilFailure(_, _, _)
UntilFailure(nodes, i, s) ==
    IF s.failed \/ i > Len(nodes) THEN s
    ELSE LET node == nodes[i]
             s1   == IF node.type = "element" /\ IsPoint(node.name)
                     THEN [s EXCEPT !.points = @ + 1] ELSE s
         IN  UntilFailure(nodes, i + 1,
                 IF FailsAt(node) THEN [s1 EXCEPT !.failed = TRUE]
                 ELSE UntilFailure(node.children, 1, s1))

\* C22: a Build during which the failure flag is set processes no element
\* after the one that set it: it reads no list of the Document afterwards
\* (the process does not dereference the NULL it holds for the Document), it
\* returns no Document, and the Waypoints it has created are at most the
\* point elements up to the failing element in document order.
C22_FailureStopsTraversal ==
    [][(ret'.op = "createGPXdoc" /\ ~parseFail /\ parseFail') =>
          /\ ~crashed'
          /\ ret'.val = NULL
          /\ Cardinality(OfKind(heap', "Waypoint") \ DOMAIN heap)
                <= UntilFailure(<<tree'.root>>, 1, [points |-> 0, failed |-> FALSE]).points]_vars

(***************************************************************************)
(* The Tracks that the trk and trkseg elements of a tree stand for.        *)
(***************************************************************************)
\* the trkseg elements among the children of a node
SegmentKids(node) ==
    SelectSeq(Kids(node), LAMBDA k : k.name = TRKSEG)

\* for the children kids[i..] of the root, the Tracks in the order they are
\* appended, each as the number of its segments: the first trkseg of a trk
\* goes to the Track of that trk, every other trkseg to a Track of its own
RECURSIVE OneTrackPerOpening(_, _)
OneTrackPerOpening(kids, i) ==
    IF i > Len(kids) THEN <<>>
    ELSE LET n == Len(SegmentKids(kids[i]))
         IN  (IF kids[i].name = TRK
              THEN <<IF n = 0 THEN 0 ELSE 1>> \o [j \in 1..(n - 1) |-> 1]
              ELSE IF kids[i].name = TRKSEG THEN <<1>>
              ELSE <<>>)
             \o OneTrackPerOpening(kids, i + 1)

\* the Tracks of the Document at d: how many segments each has
TrackShapes(h, d) ==
    [i \in 1..Len(h[d].tracks) |-> Len(h[h[d].tracks[i]].segments)]

\* C23: in the Document built from a tree whose root holds trk and trkseg
\* elements (and no trkpt of its own), a trkseg is in the Track of its trk
\* only if it is the first trkseg of that trk; every other trkseg, and every
\* trkseg outside a trk, is alone in a Track appended when the trkseg was
\* entered.
C23_SegmentOpensTrack ==
    (/\ Built /\ ~crashed /\ ret.val # NULL
     /\ WellFormed(tree.root) \/ tree.root \in OrphanTrees
     /\ \A i \in 1..Len(Kids(tree.root)) : Kids(tree.root)[i].name # TRKPT)
        => TrackShapes(heap, ret.val) = OneTrackPerOpening(Kids(tree.root), 1)

(***************************************************************************)
(* Where the points of a tree belong: every point is told by its           *)
(* coordinates, <<latitude, longitude>>.                                   *)
(***************************************************************************)
Located(node) == HasProp(node, LAT) /\ HasProp(node, LON)

CoordinatesOf(node) == <<strtod(PropOf(node, LAT)), strtod(PropOf(node, LON))>>

\* the coordinates of the children of node named tag, in document order
PointKidsOf(node, tag) ==
    LET pts == SelectSeq(Kids(node), LAMBDA k : k.name = tag)
    IN  [i \in 1..Len(pts) |-> CoordinatesOf(pts[i])]

\* one Route for every rte, holding its rtept children, and one for a rtept
\* that has no rte around it
RECURSIVE RoutesOfTree(_, _)
RoutesOfTree(kids, i) ==
    IF i > Len(kids) THEN <<>>
    ELSE (IF kids[i].name = RTE THEN <<PointKidsOf(kids[i], RTEPT)>>
          ELSE IF kids[i].name = RTEPT THEN << <<CoordinatesOf(kids[i])>> >>
          ELSE <<>>)
         \o RoutesOfTree(kids, i + 1)

\* one Track for every trk, holding a segment for every trkseg with its trkpt
\* children, and a Track of one segment for a trkpt that has no trkseg
\* around it
RECURSIVE TracksOfTree(_, _)
TracksOfTree(kids, i) ==
    IF i > Len(kids) THEN <<>>
    ELSE (IF kids[i].name = TRK
          THEN << [j \in 1..Len(SegmentKids(kids[i])) |->
                      PointKidsOf(SegmentKids(kids[i])[j], TRKPT)] >>
          ELSE IF kids[i].name = TRKPT THEN << << <<CoordinatesOf(kids[i])>> >> >>
          ELSE <<>>)
         \o TracksOfTree(kids, i + 1)

\* the coordinates of the Waypoints of a list
CoordinatesIn(h, list) ==
    [i \in 1..Len(list) |-> <<h[list[i]].latitude, h[list[i]].longitude>>]

\* every point of the tree has both coordinates, no trkseg is a child of the
\* root, and no two points without an enclosing element follow one another
\* with the same tag
PlainPlacement(root) ==
    /\ \A i \in 1..Len(Kids(root)) :
          LET k == Kids(root)[i]
          IN  /\ k.name # TRKSEG
              /\ IsPoint(k.name) => Located(k)
              /\ \A j \in 1..Len(Kids(k)) :
                    LET p == Kids(k)[j]
                    IN  /\ IsPoint(p.name) => Located(p)
                        /\ \A n \in 1..Len(Kids(p)) :
                              IsPoint(Kids(p)[n].name) => Located(Kids(p)[n])
    /\ \A i \in 1..(Len(Kids(root)) - 1) :
          Kids(root)[i].name \in {RTEPT, TRKPT}
              => Kids(root)[i + 1].name # Kids(root)[i].name

\* C24: in the Document that Build returns, Document.waypoints holds the wpt
\* elements in document order, the Routes are, in document order, one for
\* every rte with its rtept elements and one new Route for every rtept with
\* no rte around it, and the Tracks one for every trk with a segment for
\* every trkseg and its trkpt elements, and one new Track for every trkpt
\* with no trkseg around it.
C24_PointsInTheirContainers ==
    (Built /\ ~crashed /\ ret.val # NULL /\ PlainPlacement(tree.root)) =>
        /\ CoordinatesIn(heap, heap[ret.val].waypoints) = PointKidsOf(tree.root, WPT)
        /\ [i \in 1..Len(heap[ret.val].routes) |->
               CoordinatesIn(heap, heap[heap[ret.val].routes[i]].waypoints)]
              = RoutesOfTree(Kids(tree.root), 1)
        /\ [i \in 1..Len(heap[ret.val].tracks) |->
               [j \in 1..Len(heap[heap[ret.val].tracks[i]].segments) |->
                   CoordinatesIn(heap, heap[heap[heap[ret.val].tracks[i]].segments[j]].waypoints)]]
              = TracksOfTree(Kids(tree.root), 1)

(***************************************************************************)
(* The point elements of a tree and the Waypoints made for them.           *)
(***************************************************************************)
\* the point elements from nodes[i] on and below, in document order
RECURSIVE PointElements(_, _)
PointElements(nodes, i) ==
    IF i > Len(nodes) THEN <<>>
    ELSE (IF nodes[i].type = "element" /\ IsPoint(nodes[i].name)
          THEN <<nodes[i]>> ELSE <<>>)
         \o PointElements(nodes[i].children, 1)
         \o PointElements(nodes, i + 1)

\* the addresses of S, lowest first: the order in which malloc gave them
RECURSIVE Ascending(_)
Ascending(S) ==
    IF S = {} THEN <<>>
    ELSE LET least == CHOOSE m \in S : \A n \in S : m <= n
         IN  <<least>> \o Ascending(S \ {least})

\* the Waypoints that the last Build created, in the order of their creation
BuiltPoints == Ascending(OfKind(heap, "Waypoint") \ ret.arg)

\* the children of a point that are elements other than its name, as
\* ExtensionFields
ExtensionKids(node) ==
    LET ks == SelectSeq(Kids(node), LAMBDA k : k.name # NAME)
    IN  [i \in 1..Len(ks) |-> [name |-> ks[i].name, value |-> xmlNodeGetContent(ks[i])]]

\* C25: a Build that returns a Document has made one Waypoint for every
\* point element, and the ExtensionFields of that Waypoint are, in document
\* order, the element children of the point other than its name, each with
\* the tag as name and the text as value, wherever the child stands among the
\* children.
C25_ChildrenBecomeExtensionFields ==
    (Built /\ ~crashed /\ ret.val # NULL) =>
        LET pts == PointElements(<<tree.root>>, 1)
        IN  /\ Len(BuiltPoints) = Len(pts)
            /\ \A i \in 1..Len(pts) :
                  [j \in 1..Len(heap[BuiltPoints[i]].otherData) |->
                      DataValue(heap, heap[BuiltPoints[i]].otherData[j])]
                      = ExtensionKids(pts[i])

(***************************************************************************)
(* The names of the Routes and Tracks of a tree.                           *)
(***************************************************************************)
\* the text of the name child of node, "" when it has none
NameOf(node) ==
    LET names == SelectSeq(Kids(node), LAMBDA k : k.name = NAME)
    IN  IF names = <<>> THEN "" ELSE xmlNodeGetContent(names[1])

\* the names of the children of the root that are called tag, in document
\* order
NamesOfKids(root, tag) ==
    LET ks == SelectSeq(Kids(root), LAMBDA k : k.name = tag)
    IN  [i \in 1..Len(ks) |-> NameOf(ks[i])]

\* C26: in the Document built from a tree whose root holds wpt, rte and trk
\* elements only, Document.routes has one Route for every rte and
\* Document.tracks one Track for every trk, in document order, each named by
\* the text of the name child of its element, wherever that child stands, and
\* "" when the element has no name child.
C26_NamedByNameChild ==
    (/\ Built /\ ~crashed /\ ret.val # NULL
     /\ \A i \in 1..Len(Kids(tree.root)) : Kids(tree.root)[i].name \in {WPT, RTE, TRK})
        => /\ [i \in 1..Len(heap[ret.val].routes) |-> heap[heap[ret.val].routes[i]].name]
                 = NamesOfKids(tree.root, RTE)
           /\ [i \in 1..Len(heap[ret.val].tracks) |-> heap[heap[ret.val].tracks[i]].name]
                 = NamesOfKids(tree.root, TRK)

(***************************************************************************)
(* The Tracks between two places.                                          *)
(***************************************************************************)
\* the Track at t has a first waypoint within delta of the source and a last
\* within delta of the destination, its waypoints being those of all its
\* segments in order
TrackIsBetween(h, t, q) ==
    LET wpts == PointsOf(h, t)
    IN  /\ wpts # <<>>
        /\ computeDistanceBetweenWaypoints(q.sourceLat, q.sourceLong,
               h[wpts[1]].latitude, h[wpts[1]].longitude) <= q.delta
        /\ computeDistanceBetweenWaypoints(q.destLat, q.destLong,
               h[wpts[Len(wpts)]].latitude, h[wpts[Len(wpts)]].longitude) <= q.delta

\* C27: getTracksBetween returns the Tracks of the Document whose own first
\* waypoint is within delta of the source and whose own last waypoint is
\* within delta of the destination, each once and in the order of
\* Document.tracks, and NULL when there is none.
C27_TracksBetweenOwnEnds ==
    ret.op = "getTracksBetween" =>
        LET q == ret.arg
            IsFound(t) == TrackIsBetween(heap, t, q)
            expected == SelectSeq(heap[doc].tracks, IsFound)
        IN  IF expected = <<>> THEN ret.val = NULL
            ELSE ret.val # NULL /\ heap[ret.val].data = expected

(***************************************************************************)
(* The coordinates that an attribute text gives in a file of one wpt.      *)
(***************************************************************************)
\* the Waypoint of the Document built from a file that holds one wpt with
\* these two attribute texts
WaypointAlone(lat, lon) ==
    LET r == createGPXdoc(EmptyHeap, FALSE,
                 Root(FullProps, <<Point(WPT, LatLon(lat, lon), <<>>, TRUE)>>, TRUE))
    IN  r.heap[r.heap[r.gpx].waypoints[1]]

\* C28: in the Document that Build returns, the latitude of the Waypoint of a
\* point element is the one its lat text gives in a file of that point alone
\* with another lon, whatever its own lon attribute and whatever the points
\* before it, and the sentinel when the element has no lat attribute;
\* likewise its longitude and its lon attribute.
C28_OwnAttributeOnly ==
    (Built /\ ~crashed /\ ret.val # NULL) =>
        LET pts == PointElements(<<tree.root>>, 1)
        IN  /\ Len(BuiltPoints) = Len(pts)
            /\ \A i \in 1..Len(pts) :
                  /\ heap[BuiltPoints[i]].latitude
                        = IF HasProp(pts[i], LAT)
                          THEN WaypointAlone(PropOf(pts[i], LAT), T0).latitude
                          ELSE SENTINEL_LAT_LON
                  /\ heap[BuiltPoints[i]].longitude
                        = IF HasProp(pts[i], LON)
                          THEN WaypointAlone(T0, PropOf(pts[i], LON)).longitude
                          ELSE SENTINEL_LAT_LON

C30_TrackLenIsPathLength ==
    ret.op = "getTrackLen" =>
        IF ret.arg = NULL THEN ret.val = 0
        ELSE /\ ret.val = SumOfLegs(heap, PointsOf(heap, ret.arg),
                                    Len(PointsOf(heap, ret.arg)))
             /\ Len(PointsOf(heap, ret.arg)) <= 1 => ret.val = 0

====
